---- MODULE Spec2Model ----
(***************************************************************************)
(* tgz-box: the download engine (PackageDownloader), its semaphore, the    *)
(* failure store (FailedPackageManager), the network optimizer with its    *)
(* circuit breaker (NetworkOptimizer) and the retry orchestration          *)
(* (downloadPackagesWithRetry), as one state machine.                      *)
(*                                                                         *)
(* Every action is one run-to-completion step of the JavaScript event      *)
(* loop: the synchronous code up to the next await that waits for I/O or   *)
(* for a timer, microtask continuations included.                          *)
(***************************************************************************)
EXTENDS Integers, Sequences, FiniteSets, TLC

(***************************************************************************)
(* Bounds of the model.                                                    *)
(***************************************************************************)
\* the longest task list handed to one downloadPackages call
MaxBatch == 2
\* the largest concurrency a direct caller constructs a PackageDownloader with
MaxConcurrency == 2
\* downloadPackages calls a direct caller makes one after the other
MaxCalls == 2
\* the clock stops advancing past this many milliseconds
MaxNow == 90002
\* the latency, in milliseconds, the modelled transport answers with
LatencyMs == 100
\* the clock advances in steps of TickMs or TickMs + 1 milliseconds
TickMs == 30000
\* the requests the optimizer has served, and those of them that failed,
\* when a call is made late in a process
WarmSamples == 39
WarmFailures == 20
\* the failures the environment injects into such a call
WarmFaults == 2
\* the failures the environment injects into a batchGet
BatchFaults == 2
\* the responses the optimizer has recorded before the one that makes it
\* recompute the speed class
SpeedSamples == 19
\* the depth of the "dependencies" tree of a nested lock document
MaxDepth == 2
\* the number of entries of the "packages" object of a lock document
MaxEntries == 3
\* the length of the version list the registry returns for a package
MaxVersions == 4
\* the failures the environment injects into a call that a signal may end
AbortFaults == 1

\* the archives of a directory of the audited mirror
MaxArchives == 1

\* the responses an optimizer with a full window has recorded, and the
\* responses it records from there
WindowSamples == 118
MaxSamples == 3
\* the responses fed to an optimizer in one piece
FeedChunk == 30

\* the failures injected into a repair
AuditFaults == 2

\* the failures injected into calls whose tasks queue for a permit
QueueFaults == 4

\* the failures injected into a call that reports its progress
ProgressFaults == 1

\* the length of the array passed to downloadAllFromLockDeps
MaxLockDeps == 6

\* the failures (of a request or of a write) the environment injects into a
\* behaviour that runs several tasks at once
MaxFaults == 5

(***************************************************************************)
(* Program constants.                                                      *)
(***************************************************************************)
\* PackageDownloader.maxRetries
maxRetries == 3
\* NetworkOptimizer.getWithRetry(url, config, maxRetries = 5)
getMaxRetries == 5
\* FailedPackageManager.maxRetries
storeMaxRetries == 2
\* new PackageDownloader(30) of the main pass
MainConcurrency == 30
\* new PackageDownloader(10) of a retry round
RetryConcurrency == 10
\* NetworkOptimizer.circuitBreakerTimeout
circuitBreakerTimeout == 60000
\* NetworkOptimizer.cacheTimeout = 5 * 60 * 1000
cacheTimeout == 300000
\* requestTimes keeps the last 100 samples
WindowSize == 100
\* every 20th request the network speed is assessed
AssessEvery == 20
\* assessNetworkSpeed returns early below 10 samples
MinSamples == 10
\* the timeout of a request of the axios instance, in milliseconds
TimeoutMs == 30000
\* const concurrency = 5 of downloadAllFromLockDeps
lockConcurrency == 5
\* the breaker opens only when totalRequests > 20
breakerMinRequests == 20

(***************************************************************************)
(* Strings. A URL is the sequence of its '/'-separated segments; a file or *)
(* package name is a string; an install path is the sequence of its        *)
(* segments.                                                               *)
(***************************************************************************)
Last(s) == s[Len(s)]

\* the index of the first "-" segment of a URL, 0 when there is none
RECURSIVE FirstDash(_, _)
FirstDash(url, i) ==
  IF i > Len(url) THEN 0
  ELSE IF url[i] = "-" THEN i
  ELSE FirstDash(url, i + 1)

\* pkg.resolved.split('/-/')[0]
packageInfoUrl(resolved) ==
  LET d == FirstDash(resolved, 1)
  IN  IF d = 0 THEN resolved ELSE SubSeq(resolved, 1, d - 1)

\* the file name `download` saves the archive under: the URL's last segment
archiveFileName(resolved) == Last(resolved)

\* `${pkg.name}-${pkg.version}.tgz`
expectedTgzName(pkg) == pkg.name \o "-" \o pkg.version \o ".tgz"

\* `${pkg.name}@${pkg.version}`
KeyOf(pkg) == pkg.name \o "@" \o pkg.version

(***************************************************************************)
(* The lock documents of the model and the task lists made from them.      *)
(***************************************************************************)
\* entries of a flat (npm v7+) lock document
LockEntries ==
  << [key |-> <<"node_modules", "lodash">>,
      resolved |-> <<"registry", "lodash", "-", "lodash-1.0.0.tgz">>,
      version |-> "1.0.0"],
     [key |-> <<"node_modules", "vue">>,
      resolved |-> <<"registry", "vue", "-", "vue-2.0.0.tgz">>,
      version |-> "2.0.0"],
     [key |-> <<"node_modules", "a", "node_modules", "lodash">>,
      resolved |-> <<"registry", "lodash", "-", "lodash-1.0.0.tgz">>,
      version |-> "1.0.0"] >>

\* parseLockFile, npm v7+ branch: one PackageItem of an entry with resolved
parseLockEntry(e) ==
  [name |-> Last(e.resolved),
   resolved |-> e.resolved,
   path |-> Tail(e.key),
   version |-> e.version]

\* the entries a lock document has besides: the root project (key ""), a
\* bundled dependency without resolved, and a dependency installed under a
\* workspace
OtherEntries ==
  { [key |-> <<>>, resolved |-> <<>>, version |-> "1.0.0"],
    [key |-> <<"node_modules", "bundled">>, resolved |-> <<>>,
     version |-> "1.0.0"],
    [key |-> <<"packages", "app", "node_modules", "vue">>,
     resolved |-> <<"registry", "vue", "-", "vue-2.0.0.tgz">>,
     version |-> "2.0.0"] }

\* key.startsWith('node_modules/') && pkg.resolved
isRegistryEntry(e) ==
  /\ Len(e.key) >= 2
  /\ e.key[1] = "node_modules"
  /\ e.resolved # <<>>

\* parseLockFile, npm v7+ branch, of the entries of lockData.packages
parseLockFile(entries) ==
  LET kept == SelectSeq(entries, isRegistryEntry)
  IN  [k \in 1..Len(kept) |-> parseLockEntry(kept[k])]

\* the "packages" objects of the model: no key twice
LockDocuments ==
  LET all == {LockEntries[k] : k \in 1..Len(LockEntries)} \cup OtherEntries
  IN  {l \in UNION {[1..n -> all] : n \in 1..MaxEntries} :
         \A a \in 1..Len(l), b \in 1..Len(l) : a # b => l[a].key # l[b].key}

\* downloadMajorVersionsOptimized: the PackageItem of a version of a package
\* found in the mirror, its URL being the registry's dist.tarball
checkerItem(packageName, version, tarball, packagePath) ==
  [name |-> packageName,
   version |-> version,
   resolved |-> tarball,
   path |-> packagePath]

\* the PackageItems of the model, by index
Catalog ==
  << parseLockEntry(LockEntries[1]),
     parseLockEntry(LockEntries[2]),
     parseLockEntry(LockEntries[3]),
     checkerItem("vue", "2.0.0",
                 <<"registry", "vue", "-", "vue-2.0.0.tgz">>, <<"vue">>),
     checkerItem("vue", "2.1.0",
                 <<"registry", "vue", "-", "vue-2.1.0.tgz">>, <<"vue">>) >>

Pkgs == 1..Len(Catalog)

\* path.join(PACKAGES_DIR, pkg.path)
packageDir(i) == Catalog[i].path

Dirs == {packageDir(i) : i \in Pkgs}

\* the PackageItems parseLockFile makes of the lock document
LockPkgs == 1..Len(LockEntries)

\* the task lists a caller hands to downloadPackages: strictly increasing
\* index sequences of at most MaxBatch PackageItems, all of the lock document
\* or all of the checker, one per directory (the lists of several versions
\* of a directory are those the checker's repair builds, see InitAudit)
TaskLists ==
  {l \in UNION {[1..n -> Pkgs] : n \in 1..MaxBatch} :
     /\ \A a \in 1..Len(l), b \in 1..Len(l) : a < b => l[a] < l[b]
     /\ \A k \in 1..Len(l) : Len(Catalog[l[k]].path) = 1
     /\ \A a \in 1..Len(l), b \in 1..Len(l) :
          a # b => Catalog[l[a]].path # Catalog[l[b]].path
     /\ \A k \in 1..Len(l) : Catalog[l[k]].version # "2.1.0"
     /\ \/ \A k \in 1..Len(l) : l[k] \in LockPkgs
        \/ \A k \in 1..Len(l) : l[k] \notin LockPkgs}

\* the task lists of a lock document that installs one name@version at two
\* paths
SharedKeyLists ==
  {l \in [1..2 -> LockPkgs] :
     /\ l[1] < l[2]
     /\ KeyOf(Catalog[l[1]]) = KeyOf(Catalog[l[2]])
     /\ Catalog[l[1]].path # Catalog[l[2]].path}

(***************************************************************************)
(* Version strings and the version planner of the checker. A version       *)
(* string is its leading dot-separated numbers and the characters after    *)
(* them; `defined` is false for the JavaScript value undefined.            *)
(***************************************************************************)
Ver(nums, tail) == [defined |-> TRUE, nums |-> nums, tail |-> tail]

undefined == [defined |-> FALSE, nums |-> <<>>, tail |-> <<>>]

\* the version strings of the model: 1.0.0, 1.2.0, 2.0.0, 2.1.0,
\* 2.1.0-beta, 3.0.0foo, 1.2
VersionStrings ==
  { Ver(<<1, 0, 0>>, <<>>), Ver(<<1, 2, 0>>, <<>>), Ver(<<2, 0, 0>>, <<>>),
    Ver(<<2, 1, 0>>, <<>>), Ver(<<2, 1, 0>>, <<"-", "beta">>),
    Ver(<<3, 0, 0>>, <<"f", "o", "o">>), Ver(<<1, 2>>, <<>>) }

\* version.match(/^(\d+)\.(\d+)\.(\d+)/)
matchesVersion(v) == v.defined /\ Len(v.nums) >= 3

\* semver.valid: three numbers, then nothing or "-" and a prerelease
semverValid(v) ==
  /\ v.defined
  /\ Len(v.nums) = 3
  /\ \/ v.tail = <<>>
     \/ Len(v.tail) >= 2 /\ v.tail[1] = "-"

\* semver.compare(a, b) < 0: the numbers in turn, then a prerelease is
\* below its release
semverLess(a, b) ==
  \/ a.nums[1] < b.nums[1]
  \/ a.nums[1] = b.nums[1] /\ a.nums[2] < b.nums[2]
  \/ a.nums[1] = b.nums[1] /\ a.nums[2] = b.nums[2] /\ a.nums[3] < b.nums[3]
  \/ a.nums = b.nums /\ a.tail # <<>> /\ b.tail = <<>>

\* versionList.filter(semver.valid).sort(semver.rcompare)[0]
latestOf(versionList) ==
  LET valid == {versionList[k] : k \in {j \in 1..Len(versionList) :
                                           semverValid(versionList[j])}}
  IN  IF valid = {} THEN undefined
      ELSE CHOOSE v \in valid : \A u \in valid : ~semverLess(v, u)

\* the keys of majorGroups in insertion order
RECURSIVE majorsOf(_)
majorsOf(versions) ==
  IF versions = <<>> THEN <<>>
  ELSE LET rest == majorsOf(SelectSeq(Tail(versions),
                     LAMBDA v : ~(matchesVersion(v) /\ matchesVersion(Head(versions))
                                  /\ v.nums[1] = Head(versions).nums[1])))
       IN  IF matchesVersion(Head(versions))
             THEN <<Head(versions).nums[1]>> \o rest
             ELSE rest

RECURSIVE latestOfGroups(_, _, _)
latestOfGroups(majors, versions, currentVersion) ==
  IF majors = <<>> THEN <<>>
  ELSE LET versionList == SelectSeq(versions,
                            LAMBDA v : matchesVersion(v) /\ v.nums[1] = Head(majors))
           latestInMajor == latestOf(versionList)
           rest == latestOfGroups(Tail(majors), versions, currentVersion)
       IN  IF currentVersion # latestInMajor
             THEN <<latestInMajor>> \o rest
             ELSE rest

getLatestVersionsPerMajor(versions, currentVersion) ==
  latestOfGroups(majorsOf(versions), versions, currentVersion)

\* Array.prototype.sort with semver.compare: undefined goes last without a
\* call of the comparator
RECURSIVE sortVersions(_)
sortVersions(S) ==
  IF S = {} THEN <<>>
  ELSE IF S \ {undefined} = {} THEN <<undefined>>
  ELSE LET least == CHOOSE v \in S \ {undefined} :
                      \A u \in S \ {undefined} : ~semverLess(u, v)
       IN  <<least>> \o sortVersions(S \ {least})

\* downloadMajorVersionsOptimized: the versions to download of a package
finalVersions(versions, currentVersion) ==
  LET latest == getLatestVersionsPerMajor(versions, currentVersion)
  IN  sortVersions({currentVersion} \cup {latest[k] : k \in 1..Len(latest)})

\* the version lists of the registry: no version twice
VersionLists ==
  {l \in UNION {[1..n -> VersionStrings] : n \in 1..MaxVersions} :
     \A a \in 1..Len(l), b \in 1..Len(l) : a # b => l[a] # l[b]}

(***************************************************************************)
(* parseLockFile, npm v6 branch. A "dependencies" object is the sequence   *)
(* of its entries [name, resolved, version, dependencies].                 *)
(***************************************************************************)
\* what an entry carries: resolved and a version, no resolved (a bundled
\* dependency), resolved and a version that is no semantic version
NodeKinds ==
  { [resolved |-> TRUE, version |-> Ver(<<1, 0, 0>>, <<>>)],
    [resolved |-> FALSE, version |-> Ver(<<1, 0, 0>>, <<>>)],
    [resolved |-> TRUE, version |-> Ver(<<3, 0, 0>>, <<"f", "o", "o">>)] }

DependencyNodes(name, subtrees) ==
  {[name |-> name,
    resolved |-> IF k.resolved
                   THEN <<"registry", name, "-", name \o "-1.0.0.tgz">>
                   ELSE <<>>,
    version |-> k.version,
    dependencies |-> d] : k \in NodeKinds, d \in subtrees}

\* the "dependencies" objects of the model, down to a depth
RECURSIVE DependencyTrees(_)
DependencyTrees(depth) ==
  IF depth = 0 THEN {<<>>}
  ELSE LET sub == DependencyTrees(depth - 1)
       IN  {<<>>}
           \cup {<<x>> : x \in DependencyNodes("a", sub) \cup DependencyNodes("b", sub)}
           \cup {<<x, y>> : x \in DependencyNodes("a", sub),
                            y \in DependencyNodes("b", sub)}

\* extractDependencies(deps, basePath)
RECURSIVE extractDependencies(_, _)
extractDependencies(deps, basePath) ==
  IF deps = <<>> THEN <<>>
  ELSE LET info == Head(deps)
           here == basePath \o <<info.name>>
           found == IF info.resolved # <<>>
                      THEN << [name |-> Last(info.resolved),
                               resolved |-> info.resolved,
                               path |-> here,
                               version |-> info.version] >>
                           \o extractDependencies(info.dependencies, here)
                      ELSE <<>>
       IN  found \o extractDependencies(Tail(deps), basePath)

\* parseLockFile: lockData.packages, else lockData.dependencies
parseLockData(lockData) ==
  IF lockData.format = "packages" THEN parseLockFile(lockData.entries)
  ELSE extractDependencies(lockData.dependencies, <<>>)

(***************************************************************************)
(* The checker (checkTgzFiles). The repository carries two texts of it:    *)
(* utils/tgzChecker.ts, which reports the packages whose archives miss     *)
(* dist-tags.latest and repairs those, and unnamed/part_002, which plans   *)
(* the versions of every scanned package. A scanned directory is the       *)
(* record of what its package.json and its file list hold.                 *)
(***************************************************************************)
\* the characters of a version string: the numbers joined by ".", then
\* what follows them
RECURSIVE numberChars(_)
numberChars(nums) ==
  IF nums = <<>> THEN <<>>
  ELSE IF Len(nums) = 1 THEN <<ToString(nums[1])>>
  ELSE <<ToString(nums[1]), ".">> \o numberChars(Tail(nums))

versionChars(v) == numberChars(v.nums) \o v.tail

RECURSIVE joinChars(_)
joinChars(s) == IF s = <<>> THEN "" ELSE Head(s) \o joinChars(Tail(s))

versionText(v) == joinChars(versionChars(v))

\* the characters of the archive file `${name}-${version}.tgz`
archiveChars(name, v) == <<name, "-">> \o versionChars(v) \o <<".tgz">>

\* String.prototype.includes
includes(whole, part) ==
  \E k \in 0..(Len(whole) - Len(part)) : SubSeq(whole, k + 1, k + Len(part)) = part

\* a directory holding a package.json: the manifest's name, version,
\* dist-tags.latest and versions keys, and the versions of the .tgz files
\* beside it
MirrorPackage(path, name, version, latest, versions, tgzFiles) ==
  [path |-> path, name |-> name, version |-> version, latest |-> latest,
   versions |-> versions, tgzFiles |-> tgzFiles]

\* the versions keys of the registry's document of a package
RegistryVersions ==
  << Ver(<<2, 0, 0>>, <<>>), Ver(<<2, 1, 0>>, <<"-", "beta">>),
     Ver(<<2, 1, 0>>, <<>>) >>

\* response.data.dist.tarball of GET registry/name/version
tarballUrl(name, v) ==
  <<"registry", name, "-", name \o "-" \o versionText(v) \o ".tgz">>

checkSinglePackageIntegrity(d) ==
  [packageName |-> d.name, packagePath |-> d.path, hasPackageJson |-> TRUE,
   hasTgzFile |-> d.tgzFiles # {}]

\* tgzChecker.ts: the directories with a package.json whose files are not
\* all there, in the order of the walk
checkPackageIntegrity(mirror) ==
  SelectSeq([k \in 1..Len(mirror) |-> checkSinglePackageIntegrity(mirror[k])],
            LAMBDA r : ~r.hasPackageJson \/ ~r.hasTgzFile)

\* tgzChecker.ts: the mismatch entry of a directory, or none (null)
checkPackageVersionMatch(d) ==
  IF ~d.latest.defined THEN <<>>
  ELSE IF d.tgzFiles = {} THEN <<>>
  ELSE IF ~\E f \in d.tgzFiles :
             includes(archiveChars(d.name, f), versionChars(d.latest))
    THEN << [packageName |-> d.name, packagePath |-> d.path,
             expectedVersion |-> d.latest] >>
  ELSE <<>>

\* tgzChecker.ts: the walk that collects the mismatch entries, passing
\* over the names of the incomplete list
RECURSIVE checkVersionMatching(_, _)
checkVersionMatching(mirror, incompletePackages) ==
  IF mirror = <<>> THEN <<>>
  ELSE IF \E k \in 1..Len(incompletePackages) :
            incompletePackages[k].packageName = Head(mirror).name
    THEN checkVersionMatching(Tail(mirror), incompletePackages)
  ELSE checkPackageVersionMatch(Head(mirror))
         \o checkVersionMatching(Tail(mirror), incompletePackages)

\* packageContent.version || packageContent['dist-tags']?.latest || null
getPackageVersionFromJson(d) ==
  IF d.version.defined THEN d.version ELSE d.latest

\* part_002: packageInfoMap in insertion order, a name once
RECURSIVE scanAllPackages(_, _)
scanAllPackages(mirror, packageInfoMap) ==
  IF mirror = <<>> THEN packageInfoMap
  ELSE LET d == Head(mirror)
           packageVersion == getPackageVersionFromJson(d)
           known == \E k \in 1..Len(packageInfoMap) :
                      packageInfoMap[k].packageName = d.name
       IN  IF packageVersion.defined /\ ~known
             THEN scanAllPackages(Tail(mirror),
                    Append(packageInfoMap,
                           [packageName |-> d.name,
                            currentVersion |-> packageVersion,
                            packagePath |-> d.path,
                            hasPackageJson |-> TRUE,
                            hasTgzFile |-> d.tgzFiles # {}]))
             ELSE scanAllPackages(Tail(mirror), packageInfoMap)

\* part_002: the incomplete list of checkTgzFiles
incompleteOf(packageInfoMap) ==
  LET missing == SelectSeq(packageInfoMap,
                           LAMBDA r : ~r.hasPackageJson \/ ~r.hasTgzFile)
  IN  [k \in 1..Len(missing) |->
         [packageName |-> missing[k].packageName,
          packagePath |-> missing[k].packagePath,
          hasPackageJson |-> missing[k].hasPackageJson,
          hasTgzFile |-> missing[k].hasTgzFile]]

\* versions.filter(semver.valid).sort(semver.compare)
validSorted(versions) ==
  sortVersions({versions[k] : k \in {j \in 1..Len(versions) :
                                       semverValid(versions[j])}})

\* the versions keys of ./packages/<packageName>/package.json, none when
\* there is no such file
getPackageAllVersionsFromLocal(mirror, packageName) ==
  LET at == {k \in 1..Len(mirror) : mirror[k].path = <<packageName>>}
  IN  IF at = {} THEN <<>>
      ELSE validSorted(mirror[CHOOSE k \in at : TRUE].versions)

\* the versions of a package: local, else of the registry when it answers
allVersionsOf(mirror, packageName, answered) ==
  LET localVersions == getPackageAllVersionsFromLocal(mirror, packageName)
  IN  IF localVersions # <<>> THEN localVersions
      ELSE IF answered THEN validSorted(RegistryVersions)
      ELSE <<>>

\* packageVersionsMap.forEach: the entries pushed for one package
planPackage(info, allVersions) ==
  LET final == finalVersions(allVersions, info.currentVersion)
  IN  [k \in 1..Len(final) |->
         [name |-> info.packageName, version |-> final[k],
          path |-> info.packagePath]]

\* part_002: packagesToDownload of the packages whose versions were
\* obtained; answered[k]: the registry answered for the k-th package
RECURSIVE planAll(_, _, _, _)
planAll(mirror, packageInfoMap, answered, k) ==
  IF k > Len(packageInfoMap) THEN <<>>
  ELSE LET info == packageInfoMap[k]
           allVersions == allVersionsOf(mirror, info.packageName, answered[k])
           rest == planAll(mirror, packageInfoMap, answered, k + 1)
       IN  IF allVersions = <<>> THEN rest
           ELSE planPackage(info, allVersions) \o rest

\* tgzChecker.ts: what downloadMissingVersions_internal looks up
mismatchTargets(versionMismatchPackages) ==
  [k \in 1..Len(versionMismatchPackages) |->
     [name |-> versionMismatchPackages[k].packageName,
      version |-> versionMismatchPackages[k].expectedVersion,
      path |-> versionMismatchPackages[k].packagePath]]

\* the PackageItem of a looked-up target, as its index
itemOf(target) ==
  CHOOSE i \in Pkgs :
    Catalog[i] = checkerItem(target.name, versionText(target.version),
                             tarballUrl(target.name, target.version),
                             target.path)

\* the PackageItems of the targets whose download URL was obtained
RECURSIVE withUrls(_, _, _)
withUrls(targets, found, k) ==
  IF k > Len(targets) THEN <<>>
  ELSE IF found[k] THEN <<itemOf(targets[k])>> \o withUrls(targets, found, k + 1)
  ELSE withUrls(targets, found, k + 1)

(***************************************************************************)
(* NetworkOptimizer.                                                       *)
(***************************************************************************)
\* the errors of the transport: an error code, or an HTTP status
Errors ==
  { [code |-> "ETIMEDOUT", status |-> 0],
    [code |-> "", status |-> 503],
    [code |-> "", status |-> 429],
    [code |-> "", status |-> 404] }

\* the error get() throws while the breaker is open: a plain Error
CircuitOpenError == [code |-> "CIRCUIT_OPEN_MESSAGE", status |-> 0]

RetryCodes ==
  {"ECONNRESET", "ETIMEDOUT", "ENOTFOUND", "ECONNREFUSED", "EHOSTUNREACH",
   "ENETUNREACH", "EAI_AGAIN", "EPIPE", "ECONNABORTED"}

shouldRetry(error) ==
  IF error.code \in RetryCodes THEN TRUE
  ELSE IF error.status # 0
       THEN error.status >= 500 \/ error.status = 429
       ELSE FALSE

\* the sum of the entries lo..hi of s, by halves
RECURSIVE SumRange(_, _, _)
SumRange(s, lo, hi) ==
  IF lo > hi THEN 0
  ELSE IF lo = hi THEN s[lo]
  ELSE SumRange(s, lo, (lo + hi) \div 2)
         + SumRange(s, (lo + hi) \div 2 + 1, hi)

\* requestTimes.reduce((a, b) => a + b, 0)
SumSeq(s) == SumRange(s, 1, Len(s))

\* errorRate > 0.5, on integers
breakerThresholdExceeded(n) ==
  2 * n.errorCount > n.totalRequests /\ n.totalRequests > breakerMinRequests

\* a speed class whose medium bounds are inclusive
speedClassInclusive(n) ==
  LET sum == SumSeq(n.requestTimes)
      len == Len(n.requestTimes)
  IN  IF sum > 5000 * len \/ 10 * n.errorCount > 3 * n.totalRequests
        THEN "slow"
      ELSE IF sum >= 2000 * len \/ 100 * n.errorCount >= 15 * n.totalRequests
        THEN "medium"
      ELSE "fast"

\* the speed class of assessNetworkSpeed: avgTime = sum / length,
\* errorRate = errorCount / totalRequests, compared on integers
speedClass(n) ==
  LET sum == SumSeq(n.requestTimes)
      len == Len(n.requestTimes)
  IN  IF sum > 5000 * len \/ 10 * n.errorCount > 3 * n.totalRequests
        THEN "slow"
      ELSE IF sum > 2000 * len \/ 100 * n.errorCount > 15 * n.totalRequests
        THEN "medium"
      ELSE "fast"

assessNetworkSpeed(n, t) ==
  IF Len(n.requestTimes) < MinSamples THEN n
  ELSE LET opened == breakerThresholdExceeded(n)
       IN  [n EXCEPT
              !.circuitBreakerOpen = IF opened THEN TRUE ELSE @,
              !.circuitBreakerOpenTime = IF opened THEN t ELSE @,
              !.networkSpeed = speedClass(n)]

updateNetworkMetrics(n, requestTime, hasError, t) ==
  LET pushed == Append(n.requestTimes, requestTime)
      n1 == [n EXCEPT
               !.totalRequests = @ + 1,
               !.errorCount = IF hasError THEN @ + 1 ELSE @,
               !.requestTimes =
                  IF Len(pushed) > WindowSize THEN Tail(pushed) ELSE pushed]
  IN  IF n1.totalRequests % AssessEvery = 0
        THEN assessNetworkSpeed(n1, t)
        ELSE n1

Max(a, b) == IF a >= b THEN a ELSE b
Min(a, b) == IF a <= b THEN a ELSE b

\* an adaptive concurrency without the lower limits
getAdaptiveConcurrencyUnlimited(n, baseConcurrency) ==
  IF n.networkSpeed = "slow" THEN (2 * baseConcurrency) \div 10
  ELSE IF n.networkSpeed = "fast" THEN (8 * baseConcurrency) \div 10
  ELSE (5 * baseConcurrency) \div 10

\* Math.floor(baseConcurrency * 0.2), * 0.5, * 0.8 on integers
getAdaptiveConcurrency(n, baseConcurrency) ==
  IF n.networkSpeed = "slow" THEN Max(3, (2 * baseConcurrency) \div 10)
  ELSE IF n.networkSpeed = "fast" THEN (8 * baseConcurrency) \div 10
  ELSE Max(5, (5 * baseConcurrency) \div 10)

\* batchGet: the permits of its Semaphore
batchConcurrency(n, concurrency) ==
  IF n.circuitBreakerOpen
    THEN Min(getAdaptiveConcurrency(n, concurrency), 2)
    ELSE getAdaptiveConcurrency(n, concurrency)

\* the cooldown of the open breaker has elapsed at time t
cooldownElapsed(n, t) == t - n.circuitBreakerOpenTime > circuitBreakerTimeout

\* getFromCache: the URL has an entry younger than cacheTimeout
getFromCache(cache, url, t) ==
  \E c \in cache : c.url = url /\ t - c.timestamp < cacheTimeout

\* setCache: the entry of the URL is replaced
setCache(cache, url, t) ==
  {c \in cache : c.url # url} \cup {[url |-> url, timestamp |-> t]}

\* get() without its breaker check
getWithoutBreaker(n, cache, url, t) ==
  [net |-> n,
   outcome |-> IF getFromCache(cache, url, t) THEN "cached" ELSE "request"]

\* get(), up to the request: the breaker check and the cache check.
\* outcome "circuit": it throws; "cached": it returns the cached data;
\* "request": it hands the request to the transport
get(n, cache, url, t) ==
  LET blocked == n.circuitBreakerOpen /\ ~cooldownElapsed(n, t)
      n1 == IF n.circuitBreakerOpen /\ cooldownElapsed(n, t)
              THEN [n EXCEPT !.circuitBreakerOpen = FALSE]
              ELSE n
  IN  [net |-> n1,
       outcome |-> IF blocked THEN "circuit"
                   ELSE IF getFromCache(cache, url, t) THEN "cached"
                   ELSE "request"]

NetInit ==
  [totalRequests |-> 0, errorCount |-> 0, requestTimes |-> <<>>,
   networkSpeed |-> "medium", circuitBreakerOpen |-> FALSE,
   circuitBreakerOpenTime |-> 0]

\* the optimizer after k more responses at time 0, each after requestTime
\* milliseconds, the first `failed` of them errors (each response is
\* recorded before the next is looked at)
RECURSIVE FeedAt(_, _, _, _)
FeedAt(n, k, failed, requestTime) ==
  IF k = 0 THEN n
  ELSE LET next == updateNetworkMetrics(n, requestTime, failed > 0, 0)
       IN  IF next.totalRequests = n.totalRequests + 1
             THEN FeedAt(next, k - 1, IF failed > 0 THEN failed - 1 ELSE 0,
                         requestTime)
             ELSE n

Feed(n, k, failed) == FeedAt(n, k, failed, LatencyMs)

\* the durations of a request, in milliseconds
RequestTimes == {1000, 2000, 2001, 5000, 5001}

\* the optimizer of a process that has served WarmSamples requests, of
\* which WarmFailures failed
WarmNet == Feed(NetInit, WarmSamples, WarmFailures)

(***************************************************************************)
(* FailedPackageManager. failedPackages is the Map in insertion order:     *)
(* a sequence of entries [key, pkg, error]. savePending: a saveToCache()   *)
(* has been called and has not written the cache file yet.                 *)
(***************************************************************************)
StoreInit == [failedPackages |-> <<>>, retryCount |-> 0, savePending |-> FALSE]

StoreKeys(st) == {st.failedPackages[k].key : k \in 1..Len(st.failedPackages)}

isPackageFailed(st, i) == KeyOf(Catalog[i]) \in StoreKeys(st)

\* the message of the error downloadSinglePackage throws, without the cause
\* that follows it
failureMessage(pkg) == "download failed: " \o KeyOf(pkg) \o " - "

\* Map.set: the value of an existing key is replaced in place, a new key is
\* appended
addFailedPackage(st, i) ==
  LET key == KeyOf(Catalog[i])
      entry == [key |-> key, pkg |-> i, error |-> failureMessage(Catalog[i])]
  IN  [st EXCEPT !.failedPackages =
         IF key \in StoreKeys(st)
           THEN [k \in 1..Len(@) |-> IF @[k].key = key THEN entry ELSE @[k]]
           ELSE Append(@, entry),
                 !.savePending = TRUE]

removeSuccessfulPackage(st, i) ==
  [st EXCEPT !.failedPackages =
     SelectSeq(@, LAMBDA e : e.key # KeyOf(Catalog[i])),
             !.savePending = TRUE]

\* a retry list that also holds the lock packages that are not in the store
getFailedPackagesAndOthers(st) ==
  LET failed == [k \in 1..Len(st.failedPackages) |-> st.failedPackages[k].pkg]
  IN  failed \o SelectSeq(<<1, 2>>,
                          LAMBDA i : \A k \in 1..Len(failed) : failed[k] # i)

getFailedPackages(st) ==
  [k \in 1..Len(st.failedPackages) |-> st.failedPackages[k].pkg]

clearFailedPackages(st) ==
  [st EXCEPT !.failedPackages = <<>>, !.savePending = TRUE]

\* the cache file saveToCache writes
cacheData(st) ==
  [exists |-> TRUE, retryCount |-> st.retryCount,
   failedPackages |-> st.failedPackages]

\* loadFromCache once pathExists has answered true: readJSON and the two
\* assignments, or the catch branch when the file cannot be read
loadFromCache(st, file) ==
  IF file.exists
    THEN [st EXCEPT !.retryCount = file.retryCount,
                    !.failedPackages = file.failedPackages]
    ELSE [st EXCEPT !.retryCount = 0, !.failedPackages = <<>>]

resetRetryCount(st) == [st EXCEPT !.retryCount = 0]

incrementRetryCount(st) == [st EXCEPT !.retryCount = @ + 1]

\* canRetry() comparing with <=
canRetryOneMore(st) == st.retryCount <= storeMaxRetries

canRetry(st) == st.retryCount < storeMaxRetries

\* a failedPackages array that misses the last value of the Map
manifestEntriesButLast(st) ==
  [k \in 1..Len(st.failedPackages) - 1 |->
     LET e == st.failedPackages[k]
     IN  [name |-> Catalog[e.pkg].name,
          version |-> Catalog[e.pkg].version,
          resolved |-> Catalog[e.pkg].resolved,
          error |-> e.error,
          retryCount |-> st.retryCount]]

\* the failedPackages array of generateFailedPackageJson: one entry for every
\* value of the Map
manifestEntries(st) ==
  [k \in 1..Len(st.failedPackages) |->
     LET e == st.failedPackages[k]
     IN  [name |-> Catalog[e.pkg].name,
          version |-> Catalog[e.pkg].version,
          resolved |-> Catalog[e.pkg].resolved,
          error |-> e.error,
          retryCount |-> st.retryCount]]

\* no failed-packages.json was written
NoManifest == [written |-> FALSE, dependencies |-> {}, failedPackages |-> <<>>]

\* generateFailedPackageJson: the document at outputPath after the call; with
\* an empty store nothing is written
generateFailedPackageJson(st, old) ==
  IF Len(st.failedPackages) = 0 THEN old
  ELSE [written |-> TRUE,
        dependencies |->
          {<<Catalog[st.failedPackages[k].pkg].name,
             Catalog[st.failedPackages[k].pkg].version>> :
              k \in {k \in 1..Len(st.failedPackages) :
                       \A m \in k + 1..Len(st.failedPackages) :
                         Catalog[st.failedPackages[m].pkg].name
                           # Catalog[st.failedPackages[k].pkg].name}},
        failedPackages |-> manifestEntries(st)]

(***************************************************************************)
(* The mirror: every package directory with its archive files and its      *)
(* manifest (package.json).                                                *)
(***************************************************************************)
NoDir == [exists |-> FALSE, files |-> {}, manifest |-> "none"]

IsPrefix(p, q) == Len(p) <= Len(q) /\ SubSeq(q, 1, Len(p)) = p

\* fs.mkdirpSync: the directory and the directories above it exist
mkdirp(f, dir) ==
  [d \in Dirs |-> IF IsPrefix(d, dir) THEN [f[d] EXCEPT !.exists = TRUE]
                  ELSE f[d]]

\* a removal that deletes the archives and leaves the manifest
removeArchivesOnly(f, dir) ==
  [d \in Dirs |-> IF IsPrefix(dir, d) THEN [f[d] EXCEPT !.files = {}]
                  ELSE f[d]]

\* fs.remove: the directory and everything below it is gone
remove(f, dir) ==
  [d \in Dirs |-> IF IsPrefix(dir, d) THEN NoDir ELSE f[d]]

\* a file of the directory is (over)written, completely or partially
writeFile(f, dir, name, complete) ==
  LET g == mkdirp(f, dir)
  IN  [g EXCEPT ![dir].files =
         {x \in @ : x.name # name} \cup {[name |-> name, complete |-> complete]}]

fileNames(f, dir) == {x.name : x \in f[dir].files}

\* the skip check of downloadSinglePackage: package.json and the expected
\* archive exist, and package.json parses and has a name
alreadyDownloaded(f, i) ==
  /\ f[packageDir(i)].manifest # "none"
  /\ expectedTgzName(Catalog[i]) \in fileNames(f, packageDir(i))
  /\ f[packageDir(i)].manifest = "named"

(***************************************************************************)
(* Semaphore.                                                              *)
(***************************************************************************)
\* acquire() that hands out a permit without counting it
acquireUncounted(sm, i) ==
  IF sm.permits > 0
    THEN [sm EXCEPT !.granted = Append(@, i)]
    ELSE [sm EXCEPT !.waitQueue = Append(@, i)]

\* acquire() of task i: the permit is taken at once, or the task waits.
\* granted lists the tasks whose acquire() promise this call resolved
acquire(sm, i) ==
  IF sm.permits > 0
    THEN [sm EXCEPT !.permits = @ - 1, !.granted = Append(@, i)]
    ELSE [sm EXCEPT !.waitQueue = Append(@, i)]

\* a release() that returns the permit and wakes no waiter
releaseNoWake(sm) == [sm EXCEPT !.permits = @ + 1, !.granted = <<>>]

\* release(): the permit is returned and handed to the first waiter
release(sm) ==
  LET s1 == [sm EXCEPT !.permits = @ + 1, !.granted = <<>>]
  IN  IF s1.waitQueue # <<>>
        THEN [s1 EXCEPT !.permits = @ - 1,
                        !.waitQueue = Tail(@),
                        !.granted = <<Head(s1.waitQueue)>>]
        ELSE s1

RECURSIVE acquireAll(_, _)
acquireAll(sm, list) ==
  IF list = <<>> THEN sm ELSE acquireAll(acquire(sm, Head(list)), Tail(list))

(***************************************************************************)
(* State.                                                                  *)
(***************************************************************************)
VARIABLES
  now,           \* Date.now(), in milliseconds
  net,           \* the NetworkOptimizer singleton's metrics and breaker
  requestCache,  \* NetworkOptimizer.requestCache: entries [url, timestamp]
  store,         \* the FailedPackageManager singleton
  fs,            \* the mirror: directory -> [exists, files, manifest]
  caller,        \* the caller of downloadPackages and its position
  dl,            \* the running downloadPackages call of a PackageDownloader
  sem,           \* its Semaphore
  task,          \* per PackageItem: position of its task in the call
  hist,          \* per PackageItem: what its task did in the call (history)
  faults,        \* failures injected so far, counted where they are bounded
  sessionCache,  \* failed-packages-cache.json and the constructor's load of it
  manifest,      \* failed-packages.json as the run wrote it
  proc,          \* the process: "running", "stopping" (signal handler), "exited"
  planner,       \* a call of the checker's version planning: input and output
  parser,        \* a call of parseLockFile: input and output
  audit,         \* a call of checkTgzFiles: the scanned tree, report, position
  lockDeps       \* a call of downloadAllFromLockDeps: its counters and queue

vars ==
  <<now, net, requestCache, store, fs, caller, dl, sem, task, hist, faults,
    sessionCache, manifest, proc, planner, parser, audit, lockDeps>>

\* what the download engine never writes
outside ==
  <<sessionCache, manifest, proc, planner, parser, audit, lockDeps>>

\* the positions of a task that holds a permit
Active == {"check", "download", "meta", "metasleep", "write", "cleanup",
           "backoff"}

IdleTask == [pc |-> "idle", retryCount |-> 0, attempt |-> 0, startTime |-> 0]

\* attempts: calls of downloadSinglePackage; netUsed: a network request was
\* issued; hadArtifacts: the destination held manifest and archive when the
\* call began; wrote: the files the running attempt wrote; leftover: those
\* of them left when its failure was thrown; exhausted: downloadWithRetry
\* gave up; circuitRejected: the attempt's get() threw the breaker's error;
\* removeFailed: the removal that leftover was taken after had failed;
\* permanent: the attempt's metadata request got an error that shouldRetry
\* refuses; probe: the task's pending metadata request is the one whose
\* get() closed the breaker after the cooldown
NoHist == [attempts |-> 0, netUsed |-> FALSE, hadArtifacts |-> FALSE,
           wrote |-> {}, leftover |-> {}, exhausted |-> FALSE,
           circuitRejected |-> FALSE, removeFailed |-> FALSE,
           permanent |-> FALSE, probe |-> FALSE]

\* the state the handlers read and write, as one record
World ==
  [task |-> task, fs |-> fs, hist |-> hist, sem |-> sem, dl |-> dl,
   store |-> store, net |-> net, cache |-> requestCache]

Apply(w) ==
  /\ task' = w.task
  /\ fs' = w.fs
  /\ hist' = w.hist
  /\ sem' = w.sem
  /\ dl' = w.dl
  /\ store' = w.store
  /\ net' = w.net
  /\ requestCache' = w.cache

(***************************************************************************)
(* PackageDownloader: the handlers of one task.                            *)
(***************************************************************************)
\* downloadSinglePackage up to its first await: the directory is made
downloadSinglePackage(w, i) ==
  [w EXCEPT !.task[i].pc = "check",
            !.task[i].attempt = 0,
            !.fs = mkdirp(@, packageDir(i)),
            !.hist[i].attempts = @ + 1,
            !.hist[i].wrote = {},
            !.hist[i].circuitRejected = FALSE,
            !.hist[i].permanent = FALSE]

\* updateProgress(): the registered callback is called and throws
progressThrows(w) ==
  \/ w.dl.onProgress = "throws"
  \/ w.dl.onProgress = "throwsWhenCompleted" /\ w.dl.progress.completed >= 1

\* a call of downloadSinglePackage whose updateProgress() throws: the
\* rejection reaches the catch branch of downloadWithRetry, whose
\* updateProgress() throws too, or which throws the error on, and then the
\* catch branch of the task callback, up to its finally
rejectedAtStart(w, i) ==
  [w EXCEPT !.task[i].pc = "failed",
            !.hist[i].attempts = @ + 1,
            !.hist[i].exhausted = ~(w.task[i].retryCount < maxRetries),
            !.dl.progress.failed = @ + 1,
            !.dl.failedPackages = Append(@, i),
            !.store = addFailedPackage(@, i)]

RECURSIVE rejectAll(_, _)
rejectAll(w, list) ==
  IF list = <<>> THEN w
  ELSE rejectAll(
         rejectedAtStart([w EXCEPT !.task[Head(list)].retryCount = 0],
                         Head(list)),
         Tail(list))

\* k calls of release(), and the tasks they woke
RECURSIVE releaseAll(_, _, _)
releaseAll(sm, k, granted) ==
  IF k = 0 THEN [sm EXCEPT !.granted = granted]
  ELSE LET s == release(sm)
       IN  releaseAll(s, k - 1, granted \o s.granted)

\* the callback of semaphore.acquire().then: downloadWithRetry(pkg)
RECURSIVE beginTasks(_, _)
beginTasks(w, list) ==
  IF list = <<>> THEN w
  ELSE IF progressThrows(w)
    THEN LET w1 == rejectAll(w, list)
             s == releaseAll(w1.sem, Len(list), <<>>)
         IN  beginTasks([w1 EXCEPT !.sem = s], s.granted)
  ELSE beginTasks(
         downloadSinglePackage([w EXCEPT !.task[Head(list)].retryCount = 0],
                               Head(list)),
         Tail(list))

\* finally { release() }: the permit goes to the first waiter, whose task
\* starts
releasePermit(w) ==
  LET s == release(w.sem)
  IN  beginTasks([w EXCEPT !.sem = s], s.granted)

\* the try branch of the task callback of downloadPackages when its
\* updateProgress() returns
taskCompleted(w, i) ==
  releasePermit(
    [w EXCEPT !.task[i].pc = "done",
              !.dl.progress.completed = @ + 1,
              !.store = removeSuccessfulPackage(@, i)])

\* a catch branch that does not record the failed package in the result
taskFailedUnreported(w, i) ==
  releasePermit(
    [w EXCEPT !.task[i].pc = "failed",
              !.dl.progress.failed = @ + 1,
              !.store = addFailedPackage(@, i)])

\* the catch branch of the task callback of downloadPackages
taskFailed(w, i) ==
  releasePermit(
    [w EXCEPT !.task[i].pc = "failed",
              !.dl.progress.failed = @ + 1,
              !.dl.failedPackages = Append(@, i),
              !.store = addFailedPackage(@, i)])

\* the try branch of the task callback of downloadPackages: an
\* updateProgress() that throws takes the task to the catch branch
taskSucceeded(w, i) ==
  LET w1 == [w EXCEPT !.dl.progress.completed = @ + 1,
                      !.store = removeSuccessfulPackage(@, i)]
  IN  IF progressThrows(w1) THEN taskFailed(w1, i) ELSE taskCompleted(w, i)

\* the catch branch of downloadSinglePackage, up to its await: fs.remove
attemptFailed(w, i) == [w EXCEPT !.task[i].pc = "cleanup"]

\* a retry test comparing with <=
retryAllowedOneMore(retryCount) == retryCount <= maxRetries

\* downloadWithRetry: a failed attempt is retried while this holds
retryAllowed(retryCount) == retryCount < maxRetries

\* the catch branch of downloadWithRetry
downloadWithRetry(w, i) ==
  IF retryAllowed(w.task[i].retryCount)
    THEN IF progressThrows(w)
           THEN taskFailed(w, i)
           ELSE [w EXCEPT !.task[i].pc = "backoff",
                          !.task[i].retryCount = @ + 1]
    ELSE taskFailed([w EXCEPT !.hist[i].exhausted = TRUE], i)

\* the backoff delay of downloadWithRetry has passed: the next attempt
backoffDone(w, i) ==
  IF progressThrows(w)
    THEN releasePermit(rejectedAtStart(w, i))
    ELSE downloadSinglePackage(w, i)

\* try { await fs.remove(packageDir) } catch { } has ended, the removal
\* done or failed and its error ignored: the attempt's error is thrown to
\* downloadWithRetry
cleanupDone(w, i, removed) ==
  LET f == IF removed THEN remove(w.fs, packageDir(i)) ELSE w.fs
  IN  downloadWithRetry(
        [w EXCEPT !.fs = f,
                  !.hist[i].removeFailed = ~removed,
                  !.hist[i].leftover =
                     {x \in w.hist[i].wrote :
                        \/ x \in fileNames(f, packageDir(i))
                        \/ x = "package.json" /\ f[packageDir(i)].manifest # "none"}],
        i)

\* networkOptimizer.get(packageInfoUrl) up to its await
requestPackageInfo(w, i, t) ==
  LET g == get(w.net, w.cache, packageInfoUrl(Catalog[i].resolved), t)
      w1 == [w EXCEPT !.net = g.net]
  IN  IF g.outcome = "circuit"
        THEN attemptFailed([w1 EXCEPT !.hist[i].circuitRejected = TRUE], i)
      ELSE IF g.outcome = "cached" THEN [w1 EXCEPT !.task[i].pc = "write"]
      ELSE [w1 EXCEPT !.task[i].pc = "meta",
                      !.hist[i].netUsed = TRUE,
                      !.hist[i].probe =
                         w.net.circuitBreakerOpen /\ ~g.net.circuitBreakerOpen]

\* the skip check has been read from the mirror
checkExisting(w, i) ==
  IF alreadyDownloaded(w.fs, i) THEN taskSucceeded(w, i)
  ELSE [w EXCEPT !.task[i].pc = "download", !.hist[i].netUsed = TRUE]

\* download(pkg.resolved, packageDir) has ended
downloadDone(w, i, ok, written, t) ==
  LET name == archiveFileName(Catalog[i].resolved)
      w1 == IF written
              THEN [w EXCEPT !.fs = writeFile(@, packageDir(i), name, ok),
                             !.hist[i].wrote = @ \cup {name}]
              ELSE w
  IN  IF ok THEN requestPackageInfo(w1, i, t) ELSE attemptFailed(w1, i)

\* the response of the metadata request: the interceptors record the sample,
\* get caches a success, getWithRetry decides on a retry
metaResponse(w, i, ok, error, t) ==
  LET url == packageInfoUrl(Catalog[i].resolved)
      w1 == [w EXCEPT !.net = updateNetworkMetrics(@, LatencyMs, ~ok, t),
                      !.hist[i].probe = FALSE]
  IN  IF ok
        THEN [w1 EXCEPT !.cache = setCache(@, url, t), !.task[i].pc = "write"]
      ELSE IF w.task[i].attempt = getMaxRetries
        THEN attemptFailed(
               [w1 EXCEPT !.hist[i].permanent = ~shouldRetry(error)], i)
      ELSE IF shouldRetry(error) THEN [w1 EXCEPT !.task[i].pc = "metasleep"]
      ELSE attemptFailed([w1 EXCEPT !.hist[i].permanent = TRUE], i)

\* the retry delay of getWithRetry has passed: the next get
metaWake(w, i, t) ==
  requestPackageInfo([w EXCEPT !.task[i].attempt = @ + 1], i, t)

\* fs.writeJSON(packageJsonPath) has ended
writeDone(w, i, ok, written) ==
  LET dir == packageDir(i)
      present == w.fs[dir].exists
      w1 == IF present /\ (ok \/ written)
              THEN [w EXCEPT !.fs[dir].manifest = IF ok THEN "named" ELSE "partial",
                             !.hist[i].wrote = @ \cup {"package.json"}]
              ELSE w
  IN  IF present /\ ok THEN taskSucceeded(w1, i) ELSE attemptFailed(w1, i)

(***************************************************************************)
(* PackageDownloader.downloadPackages up to its await of allSettled.       *)
(***************************************************************************)
\* the destination of the task holds the manifest and the complete archive
\* that a download of the task saves
hasArtifacts(f, i) ==
  /\ f[packageDir(i)].manifest = "named"
  /\ [name |-> archiveFileName(Catalog[i].resolved), complete |-> TRUE]
       \in f[packageDir(i)].files

InSeq(x, list) == \E k \in 1..Len(list) : list[k] = x

\* a selection that ignores skipFailed
packagesToDownloadUnfiltered(st, packages, skipFailed) == packages

\* packages.filter(pkg => !failedPackageManager.isPackageFailed(pkg))
packagesToDownload(st, packages, skipFailed) ==
  IF skipFailed
    THEN SelectSeq(packages, LAMBDA i : ~isPackageFailed(st, i))
    ELSE packages

downloadPackages(w, packages, skipFailed, concurrency) ==
  LET batch == packagesToDownload(w.store, packages, skipFailed)
      s == acquireAll([permits |-> concurrency, waitQueue |-> <<>>,
                       granted |-> <<>>], batch)
      w1 == [w EXCEPT
               !.dl = [skipFailed |-> skipFailed,
                       packages |-> packages,
                       batch |-> batch,
                       concurrency |-> concurrency,
                       progress |-> [total |-> Len(batch), completed |-> 0,
                                     failed |-> 0],
                       failedPackages |-> <<>>,
                       status |-> "pending",
                       failedAtCall |-> StoreKeys(w.store),
                       onProgress |-> w.dl.onProgress],
               !.sem = s,
               !.task = [i \in Pkgs |->
                           IF InSeq(i, batch)
                             THEN [IdleTask EXCEPT !.pc = "queued"]
                             ELSE IdleTask],
               !.hist = [i \in Pkgs |->
                           [NoHist EXCEPT !.hadArtifacts = hasArtifacts(w.fs, i)]]]
  IN  beginTasks(w1, s.granted)

AllSettled ==
  \A k \in 1..Len(dl.batch) : task[dl.batch[k]].pc \in {"done", "failed"}

(***************************************************************************)
(* NetworkOptimizer.batchGet: task i fetches the URL                       *)
(* packageInfoUrl(Catalog[i].resolved).                                    *)
(***************************************************************************)
RECURSIVE batchBegin(_, _, _)
RECURSIVE batchSettled(_, _, _, _)

\* getWithRetry after a get() that threw: the last attempt or an error
\* shouldRetry refuses is thrown on, else the retry delay is awaited
batchGetFailed(w, i, error, t) ==
  IF w.task[i].attempt = getMaxRetries \/ ~shouldRetry(error)
    THEN batchSettled(w, i, TRUE, t)
    ELSE [w EXCEPT !.task[i].pc = "metasleep"]

\* getWithRetry: this.get(url) up to the request
batchRequest(w, i, t) ==
  LET g == get(w.net, w.cache, packageInfoUrl(Catalog[i].resolved), t)
      w1 == [w EXCEPT !.net = g.net]
  IN  IF g.outcome = "circuit" THEN batchGetFailed(w1, i, CircuitOpenError, t)
      ELSE IF g.outcome = "cached" THEN batchSettled(w1, i, FALSE, t)
      ELSE [w1 EXCEPT !.task[i].pc = "meta"]

\* the callbacks of semaphore.acquire() of the tasks of `list`, in turn
batchBegin(w, list, t) ==
  IF list = <<>> THEN w
  ELSE batchBegin(
         batchRequest([w EXCEPT !.task[Head(list)].pc = "start",
                                !.task[Head(list)].attempt = 0,
                                !.task[Head(list)].startTime = t],
                      Head(list), t),
         Tail(list), t)

\* the try or catch branch of a task of batchGet, and its finally: the
\* sample is recorded, the permit released, and the first waiter starts
batchSettled(w, i, hasError, t) ==
  LET s == release(w.sem)
      w1 == [w EXCEPT
               !.net = updateNetworkMetrics(@, t - w.task[i].startTime,
                                            hasError, t),
               !.task[i].pc = IF hasError THEN "failed" ELSE "done",
               !.sem = s]
  IN  batchBegin(w1, s.granted, t)

\* the response of a request of a task: the interceptor records the sample,
\* get caches a success
batchResponse(w, i, ok, error, t) ==
  LET url == packageInfoUrl(Catalog[i].resolved)
      w1 == [w EXCEPT !.net = updateNetworkMetrics(@, LatencyMs, ~ok, t)]
  IN  IF ok
        THEN batchSettled([w1 EXCEPT !.cache = setCache(@, url, t)], i, FALSE, t)
        ELSE batchGetFailed(w1, i, error, t)

\* the retry delay of getWithRetry has passed: the next get
batchWake(w, i, t) ==
  batchRequest([w EXCEPT !.task[i].attempt = @ + 1], i, t)

\* batchGet(urls, concurrency) up to its await
batchGet(w, urls, concurrency, t) ==
  LET adaptiveConcurrency == batchConcurrency(w.net, concurrency)
      s == acquireAll([permits |-> adaptiveConcurrency, waitQueue |-> <<>>,
                       granted |-> <<>>], urls)
      w1 == [w EXCEPT
               !.dl = [@ EXCEPT !.packages = urls,
                                !.batch = urls,
                                !.concurrency = adaptiveConcurrency,
                                !.status = "pending"],
               !.sem = s,
               !.task = [i \in Pkgs |->
                           IF InSeq(i, urls)
                             THEN [IdleTask EXCEPT !.pc = "queued"]
                             ELSE IdleTask]]
  IN  batchBegin(w1, s.granted, t)

(***************************************************************************)
(* Initial state: the singletons after construction, an empty mirror, and  *)
(* a caller: install's downloadPackagesWithRetry ("run") with a task list  *)
(* of parseLockFile, or a direct caller of downloadPackages ("direct").    *)
(***************************************************************************)
RunLists == {l \in TaskLists : \A k \in 1..Len(l) : l[k] \in LockPkgs}

\* the callers of the model; limited: the injected failures are bounded
Callers(lists, limited) ==
  {[mode |-> "run", pc |-> "start", packages |-> l,
    concurrency |-> MainConcurrency, calls |-> 0, rounds |-> 0,
    limited |-> limited, budget |-> MaxFaults] :
     l \in lists \cap RunLists}
  \cup
  {[mode |-> "direct", pc |-> "start", packages |-> l,
    concurrency |-> c, calls |-> 0, rounds |-> 0, limited |-> limited,
    budget |-> MaxFaults] :
     l \in lists, c \in 1..MaxConcurrency}

\* callbacks: what setProgressCallback has registered on the downloader:
\* "none", a callback that returns, one that throws, or one that throws
\* once progress.completed is positive
InitEngine(callers, n, callbacks) ==
  /\ now = 0
  /\ net = n
  /\ requestCache = {}
  /\ store = StoreInit
  /\ fs = [d \in Dirs |-> NoDir]
  /\ caller \in callers
  /\ faults = 0
  /\ dl \in {[skipFailed |-> TRUE, packages |-> <<>>, batch |-> <<>>,
              concurrency |-> 0,
              progress |-> [total |-> 0, completed |-> 0, failed |-> 0],
              failedPackages |-> <<>>, status |-> "none",
              failedAtCall |-> {}, onProgress |-> c] : c \in callbacks}
  /\ sem = [permits |-> 0, waitQueue |-> <<>>, granted |-> <<>>]
  /\ task = [i \in Pkgs |-> IdleTask]
  /\ hist = [i \in Pkgs |-> NoHist]

\* the callbacks of install and of the checker return
InitFrom(callers, n) == InitEngine(callers, n, {"returns"})

InitWith(callers) == InitFrom(callers, NetInit)

\* no cache file of an earlier session, and its load has ended
NoFile == [exists |-> FALSE, retryCount |-> 0, failedPackages |-> <<>>]

NoSession == [file |-> NoFile, load |-> "done"]

NoPlan == [pc |-> "idle", versions |-> <<>>, current |-> undefined,
           latest |-> <<>>, final |-> <<>>]

NoParse == [pc |-> "idle", format |-> "packages", entries |-> <<>>,
            dependencies |-> <<>>, packages |-> <<>>]

\* no call of checkTgzFiles
NoAudit ==
  [pc |-> "idle", text |-> "tgzChecker.ts", fix |-> FALSE, mirror |-> <<>>,
   packageInfoMap |-> <<>>, incompletePackages |-> <<>>,
   versionMismatchPackages |-> <<>>, packagesToDownload |-> <<>>,
   packagesWithUrls |-> <<>>, downloadedVersions |-> <<>>, errors |-> 0]

\* no call of downloadAllFromLockDeps
NoLockDeps ==
  [status |-> "none", total |-> 0, index |-> 0, running |-> {},
   finished |-> 0, failed |-> 0, failedList |-> <<>>]

\* a caller of a single task meets any number of failures, a caller of
\* several tasks at most MaxFaults
Init ==
  /\ InitWith(Callers({l \in TaskLists : Len(l) = 1}, FALSE)
              \cup Callers({l \in TaskLists : Len(l) > 1}, TRUE))
  /\ sessionCache = NoSession
  /\ manifest = NoManifest
  /\ proc = "running"
  /\ planner = NoPlan
  /\ parser = NoParse
  /\ audit = NoAudit
  /\ lockDeps = NoLockDeps

\* the environment may let a request or a write fail
CanFail == caller.limited => faults < caller.budget

Fault(failed) ==
  faults' = IF failed /\ caller.limited THEN faults + 1 ELSE faults

(***************************************************************************)
(* Actions.                                                                *)
(***************************************************************************)
\* time passes
Tick ==
  /\ net.circuitBreakerOpen
  /\ \E d \in {TickMs, TickMs + 1} :
       /\ now + d <= MaxNow
       /\ now' = now + d
  /\ UNCHANGED <<net, requestCache, store, fs, caller, dl, sem, task, hist,
                 faults>>
  /\ UNCHANGED outside

\* downloadPackagesWithRetry up to the main pass: the store is reset and
\* downloadPackages(packages, true) is called on a PackageDownloader(30)
BeginRun ==
  /\ caller.mode = "run" /\ caller.pc = "start"
  /\ Apply(downloadPackages(
             [World EXCEPT !.store = resetRetryCount(clearFailedPackages(@))],
             caller.packages, TRUE, MainConcurrency))
  /\ caller' = [caller EXCEPT !.pc = "round", !.calls = @ + 1]
  /\ UNCHANGED <<now, faults>>
  /\ UNCHANGED outside

\* a direct caller calls downloadPackages(packages, skipFailed)
DirectCall ==
  /\ caller.mode = "direct"
  /\ dl.status \in {"none", "resolved"}
  /\ caller.calls < MaxCalls
  /\ \E skipFailed \in BOOLEAN :
       Apply(downloadPackages(World, caller.packages, skipFailed,
                              caller.concurrency))
  /\ caller' = [caller EXCEPT !.pc = "round", !.calls = @ + 1]
  /\ UNCHANGED <<now, faults>>
  /\ UNCHANGED outside

\* await Promise.allSettled(downloadPromises); return failedPackages
Return ==
  /\ dl.status = "pending"
  /\ AllSettled
  /\ dl' = [dl EXCEPT !.status = "resolved"]
  /\ UNCHANGED <<now, net, requestCache, store, fs, caller, sem, task, hist,
                 faults>>
  /\ UNCHANGED outside

\* the retry loop of downloadPackagesWithRetry: one more round
RetryRound ==
  /\ caller.mode = "run" /\ caller.pc = "round"
  /\ dl.status = "resolved"
  /\ canRetry(store) /\ Len(getFailedPackages(store)) > 0
  /\ Apply(downloadPackages(
             [World EXCEPT !.store = incrementRetryCount(@)],
             getFailedPackages(store), FALSE, RetryConcurrency))
  /\ caller' = [caller EXCEPT !.calls = @ + 1, !.rounds = @ + 1]
  /\ UNCHANGED <<now, faults>>
  /\ UNCHANGED outside

\* the retry loop of downloadPackagesWithRetry ends: with failures left
\* (finalStats.totalFailed > 0) the manifest is generated
FinishRun ==
  /\ caller.mode = "run" /\ caller.pc = "round"
  /\ dl.status = "resolved"
  /\ ~(canRetry(store) /\ Len(getFailedPackages(store)) > 0)
  /\ caller' = [caller EXCEPT !.pc = "finished"]
  /\ manifest' = IF Len(store.failedPackages) > 0
                   THEN generateFailedPackageJson(store, manifest)
                   ELSE manifest
  /\ UNCHANGED <<now, net, requestCache, store, fs, dl, sem, task, hist,
                 faults>>
  /\ UNCHANGED <<sessionCache, proc, planner, parser, audit, lockDeps>>

CheckExisting(i) ==
  /\ task[i].pc = "check"
  /\ Apply(checkExisting(World, i))
  /\ UNCHANGED <<now, caller, faults>>
  /\ UNCHANGED outside

DownloadDone(i) ==
  /\ task[i].pc = "download"
  /\ \E ok \in BOOLEAN, written \in BOOLEAN :
       /\ ok => written
       /\ ~ok => CanFail
       /\ Apply(downloadDone(World, i, ok, written, now))
       /\ Fault(~ok)
  /\ UNCHANGED <<now, caller>>
  /\ UNCHANGED outside

MetaResponse(i) ==
  /\ task[i].pc = "meta"
  /\ \/ /\ Apply(metaResponse(World, i, TRUE, CircuitOpenError, now))
        /\ Fault(FALSE)
     \/ /\ CanFail
        /\ \E e \in Errors : Apply(metaResponse(World, i, FALSE, e, now))
        /\ Fault(TRUE)
  /\ UNCHANGED <<now, caller>>
  /\ UNCHANGED outside

MetaWake(i) ==
  /\ task[i].pc = "metasleep"
  /\ Apply(metaWake(World, i, now))
  /\ UNCHANGED <<now, caller, faults>>
  /\ UNCHANGED outside

WriteDone(i) ==
  /\ task[i].pc = "write"
  /\ \E ok \in BOOLEAN, written \in BOOLEAN :
       /\ ok => written
       /\ ~ok => CanFail
       /\ Apply(writeDone(World, i, ok, written))
       /\ Fault(~ok)
  /\ UNCHANGED <<now, caller>>
  /\ UNCHANGED outside

CleanupDone(i) ==
  /\ task[i].pc = "cleanup"
  /\ \E removed \in BOOLEAN :
       /\ ~removed => CanFail
       /\ Apply(cleanupDone(World, i, removed))
       /\ Fault(~removed)
  /\ UNCHANGED <<now, caller>>
  /\ UNCHANGED outside

\* the backoff delay of downloadWithRetry has passed: the next attempt
BackoffDone(i) ==
  /\ task[i].pc = "backoff"
  /\ Apply(backoffDone(World, i))
  /\ UNCHANGED <<now, caller, faults>>
  /\ UNCHANGED outside

Next ==
  \/ Tick
  \/ BeginRun
  \/ DirectCall
  \/ Return
  \/ RetryRound
  \/ FinishRun
  \/ \E i \in Pkgs : CheckExisting(i)
  \/ \E i \in Pkgs : DownloadDone(i)
  \/ \E i \in Pkgs : MetaResponse(i)
  \/ \E i \in Pkgs : MetaWake(i)
  \/ \E i \in Pkgs : WriteDone(i)
  \/ \E i \in Pkgs : CleanupDone(i)
  \/ \E i \in Pkgs : BackoffDone(i)

Spec == Init /\ [][Next]_vars

(***************************************************************************)
(* A call made late in a process: the optimizer has served requests        *)
(* before, and half of them failed.                                        *)
(***************************************************************************)
WarmCallers ==
  {[c EXCEPT !.calls = MaxCalls - 1, !.budget = WarmFaults] :
     c \in {d \in Callers({l \in TaskLists : Len(l) > 1}, TRUE) :
              d.mode = "direct" /\ d.concurrency > 1}}

InitWarm ==
  /\ InitFrom(WarmCallers, WarmNet)
  /\ sessionCache = NoSession
  /\ manifest = NoManifest
  /\ proc = "running"
  /\ planner = NoPlan
  /\ parser = NoParse
  /\ audit = NoAudit
  /\ lockDeps = NoLockDeps

NextWarm ==
  \/ Tick
  \/ DirectCall
  \/ Return
  \/ \E i \in Pkgs : CheckExisting(i)
  \/ \E i \in Pkgs : DownloadDone(i)
  \/ \E i \in Pkgs : MetaResponse(i)
  \/ \E i \in Pkgs : MetaWake(i)
  \/ \E i \in Pkgs : WriteDone(i)
  \/ \E i \in Pkgs : CleanupDone(i)
  \/ \E i \in Pkgs : BackoffDone(i)

SpecWarm == InitWarm /\ [][NextWarm]_vars

(***************************************************************************)
(* install of a lock document with one name@version at two paths.          *)
(***************************************************************************)
SharedKeyCallers ==
  {[mode |-> "run", pc |-> "start", packages |-> l,
    concurrency |-> MainConcurrency, calls |-> 0, rounds |-> 0,
    limited |-> TRUE, budget |-> MaxFaults] : l \in SharedKeyLists}

InitPaths ==
  /\ InitFrom(SharedKeyCallers, NetInit)
  /\ sessionCache = NoSession
  /\ manifest = NoManifest
  /\ proc = "running"
  /\ planner = NoPlan
  /\ parser = NoParse
  /\ audit = NoAudit
  /\ lockDeps = NoLockDeps

NextPaths ==
  \/ BeginRun
  \/ Return
  \/ RetryRound
  \/ FinishRun
  \/ \E i \in Pkgs : CheckExisting(i)
  \/ \E i \in Pkgs : DownloadDone(i)
  \/ \E i \in Pkgs : MetaResponse(i)
  \/ \E i \in Pkgs : MetaWake(i)
  \/ \E i \in Pkgs : WriteDone(i)
  \/ \E i \in Pkgs : CleanupDone(i)
  \/ \E i \in Pkgs : BackoffDone(i)

SpecPaths == InitPaths /\ [][NextPaths]_vars

(***************************************************************************)
(* install in a process whose store has just been constructed: the         *)
(* constructor's loadFromCache() is running, and the cache file of an      *)
(* earlier session that did not reach its cleanup may exist.               *)
(***************************************************************************)
\* the cache file of a session that ended with one failure after its
\* retry rounds
PreviousFile ==
  cacheData([retryCount |-> storeMaxRetries,
             failedPackages |->
               << [key |-> KeyOf(Catalog[2]), pkg |-> 2,
                   error |-> failureMessage(Catalog[2])] >>])

InitSession ==
  /\ InitFrom({c \in Callers({l \in TaskLists : Len(l) = 1}, TRUE) :
                 c.mode = "run"},
              NetInit)
  /\ sessionCache \in {[file |-> f, load |-> "start"] :
                         f \in {NoFile, PreviousFile}}
  /\ manifest = NoManifest
  /\ proc = "running"
  /\ planner = NoPlan
  /\ parser = NoParse
  /\ audit = NoAudit
  /\ lockDeps = NoLockDeps

\* loadFromCache: await fs.pathExists(this.cacheFilePath)
LoadExists ==
  /\ sessionCache.load = "start"
  /\ sessionCache' =
       [sessionCache EXCEPT !.load = IF sessionCache.file.exists
                                       THEN "read" ELSE "done"]
  /\ UNCHANGED <<now, net, requestCache, store, fs, caller, dl, sem, task,
                 hist, faults>>
  /\ UNCHANGED <<manifest, proc, planner, parser, audit, lockDeps>>

\* loadFromCache: await fs.readJSON(...) and the assignments after it
LoadAssign ==
  /\ sessionCache.load = "read"
  /\ store' = loadFromCache(store, sessionCache.file)
  /\ sessionCache' = [sessionCache EXCEPT !.load = "done"]
  /\ UNCHANGED <<now, net, requestCache, fs, caller, dl, sem, task, hist,
                 faults>>
  /\ UNCHANGED <<manifest, proc, planner, parser, audit, lockDeps>>

\* saveToCache: the pending save writes the cache file
SaveDone ==
  /\ store.savePending
  /\ sessionCache' = [sessionCache EXCEPT !.file = cacheData(store)]
  /\ store' = [store EXCEPT !.savePending = FALSE]
  /\ UNCHANGED <<now, net, requestCache, fs, caller, dl, sem, task, hist,
                 faults>>
  /\ UNCHANGED <<manifest, proc, planner, parser, audit, lockDeps>>

NextSession ==
  \/ LoadExists
  \/ LoadAssign
  \/ SaveDone
  \/ BeginRun
  \/ Return
  \/ RetryRound
  \/ FinishRun
  \/ \E i \in Pkgs : CheckExisting(i)
  \/ \E i \in Pkgs : DownloadDone(i)
  \/ \E i \in Pkgs : MetaResponse(i)
  \/ \E i \in Pkgs : MetaWake(i)
  \/ \E i \in Pkgs : WriteDone(i)
  \/ \E i \in Pkgs : CleanupDone(i)
  \/ \E i \in Pkgs : BackoffDone(i)

SpecSession == InitSession /\ [][NextSession]_vars

(***************************************************************************)
(* The checker plans the versions of a package found in the mirror.        *)
(***************************************************************************)
InitPlanner ==
  /\ InitFrom({c \in Callers({l \in TaskLists : Len(l) = 1}, FALSE) :
                 c.mode = "direct" /\ c.concurrency = 1
                 /\ c.packages[1] \notin LockPkgs},
              NetInit)
  /\ sessionCache = NoSession
  /\ manifest = NoManifest
  /\ proc = "running"
  /\ planner \in {[NoPlan EXCEPT !.versions = l, !.current = c] :
                     l \in VersionLists,
                     c \in {v \in VersionStrings : semverValid(v)}}
  /\ parser = NoParse
  /\ audit = NoAudit
  /\ lockDeps = NoLockDeps

\* the callback of packageVersionsMap.forEach for the package
PlanVersions ==
  /\ planner.pc = "idle"
  /\ planner' =
       [planner EXCEPT
          !.pc = "planned",
          !.latest = getLatestVersionsPerMajor(planner.versions, planner.current),
          !.final = finalVersions(planner.versions, planner.current)]
  /\ UNCHANGED <<now, net, requestCache, store, fs, caller, dl, sem, task,
                 hist, faults>>
  /\ UNCHANGED <<sessionCache, manifest, proc, parser, audit, lockDeps>>

NextPlanner == PlanVersions

SpecPlanner == InitPlanner /\ [][NextPlanner]_vars

(***************************************************************************)
(* The response interceptors record a response that makes the optimizer    *)
(* recompute the speed class.                                              *)
(***************************************************************************)
InitSpeed ==
  /\ \E failed \in 0..SpeedSamples, requestTime \in RequestTimes :
       InitFrom({c \in Callers({l \in TaskLists : Len(l) = 1}, FALSE) :
                   c.mode = "direct" /\ c.concurrency = 1
                   /\ c.packages[1] \notin LockPkgs},
                FeedAt(NetInit, SpeedSamples, failed, requestTime))
  /\ sessionCache = NoSession
  /\ manifest = NoManifest
  /\ proc = "running"
  /\ planner = NoPlan
  /\ parser = NoParse
  /\ audit = NoAudit
  /\ lockDeps = NoLockDeps

\* the response interceptor of the axios instance: a response or an error
ResponseRecorded ==
  /\ net.totalRequests <= SpeedSamples
  /\ \E requestTime \in RequestTimes, hasError \in BOOLEAN :
       net' = updateNetworkMetrics(net, requestTime, hasError, now)
  /\ UNCHANGED <<now, requestCache, store, fs, caller, dl, sem, task, hist,
                 faults>>
  /\ UNCHANGED outside

NextSpeed == ResponseRecorded

SpecSpeed == InitSpeed /\ [][NextSpeed]_vars

(***************************************************************************)
(* A call of batchGet on an optimizer that has served requests before.     *)
(***************************************************************************)
\* the optimizers of the model: new; after 20 successes; after 7 failures
\* in 20 responses; after 20 failures in 39; after 40 failures in 59, the
\* breaker having opened at the 40th
BatchNets ==
  {Feed(NetInit, k[1], k[2]) :
     k \in {<<0, 0>>, <<20, 0>>, <<20, 7>>, <<39, 20>>, <<59, 40>>}}

BatchCallers ==
  {[mode |-> "batch", pc |-> "start", packages |-> l, concurrency |-> c,
    calls |-> 0, rounds |-> 0, limited |-> TRUE, budget |-> BatchFaults,
    speedAtCall |-> "none", openAtCall |-> FALSE] :
     l \in {l \in TaskLists : l[1] = 1}, c \in {1, 10, 30}}

InitBatch ==
  /\ \E n \in BatchNets : InitFrom(BatchCallers, n)
  /\ sessionCache = NoSession
  /\ manifest = NoManifest
  /\ proc = "running"
  /\ planner = NoPlan
  /\ parser = NoParse
  /\ audit = NoAudit
  /\ lockDeps = NoLockDeps

\* a caller calls batchGet(urls, concurrency)
BatchGet ==
  /\ caller.mode = "batch" /\ caller.pc = "start"
  /\ Apply(batchGet(World, caller.packages, caller.concurrency, now))
  /\ caller' = [caller EXCEPT !.pc = "round", !.calls = @ + 1,
                              !.speedAtCall = net.networkSpeed,
                              !.openAtCall = net.circuitBreakerOpen]
  /\ UNCHANGED <<now, faults>>
  /\ UNCHANGED outside

BatchResponse(i) ==
  /\ caller.mode = "batch"
  /\ task[i].pc = "meta"
  /\ \/ /\ Apply(batchResponse(World, i, TRUE, CircuitOpenError, now))
        /\ Fault(FALSE)
     \/ /\ CanFail
        /\ \E e \in Errors : Apply(batchResponse(World, i, FALSE, e, now))
        /\ Fault(TRUE)
  /\ UNCHANGED <<now, caller>>
  /\ UNCHANGED outside

BatchWake(i) ==
  /\ caller.mode = "batch"
  /\ task[i].pc = "metasleep"
  /\ Apply(batchWake(World, i, now))
  /\ UNCHANGED <<now, caller, faults>>
  /\ UNCHANGED outside

NextBatch ==
  \/ Tick
  \/ BatchGet
  \/ Return
  \/ \E i \in Pkgs : BatchResponse(i)
  \/ \E i \in Pkgs : BatchWake(i)

SpecBatch == InitBatch /\ [][NextBatch]_vars

\* every request is answered, every retry delay passes, and the await of
\* Promise.allSettled resumes once the promises are settled
FairBatch ==
  /\ WF_vars(Return)
  /\ \A i \in Pkgs : WF_vars(BatchResponse(i)) /\ WF_vars(BatchWake(i))

SpecBatchLive == SpecBatch /\ FairBatch

(***************************************************************************)
(* install parses a lock document.                                         *)
(***************************************************************************)
InitParser ==
  /\ InitFrom({c \in Callers({l \in TaskLists : Len(l) = 1}, FALSE) :
                 c.mode = "run" /\ c.packages[1] = 1},
              NetInit)
  /\ sessionCache = NoSession
  /\ manifest = NoManifest
  /\ proc = "running"
  /\ planner = NoPlan
  /\ \/ parser \in {[NoParse EXCEPT !.entries = l] : l \in LockDocuments}
     \/ parser \in {[NoParse EXCEPT !.format = "dependencies",
                                     !.dependencies = t] :
                       t \in DependencyTrees(MaxDepth)}
  /\ audit = NoAudit
  /\ lockDeps = NoLockDeps

\* install: const packages = parseLockFile(lockData, true)
ParseLock ==
  /\ parser.pc = "idle"
  /\ parser' = [parser EXCEPT !.pc = "parsed",
                              !.packages = parseLockData(parser)]
  /\ UNCHANGED <<now, net, requestCache, store, fs, caller, dl, sem, task,
                 hist, faults>>
  /\ UNCHANGED <<sessionCache, manifest, proc, planner, audit, lockDeps>>

NextParser == ParseLock

SpecParser == InitParser /\ [][NextParser]_vars

(***************************************************************************)
(* Calls of downloadPackages with more tasks than failures, every step of  *)
(* a task ending: a download, a request, a write, a removal and a delay    *)
(* all come to an end.                                                     *)
(***************************************************************************)
QueueCallers ==
  {[c EXCEPT !.budget = QueueFaults] :
     c \in {d \in Callers({l \in TaskLists : Len(l) > 1}, TRUE) :
              d.mode = "direct"}}

InitQueue ==
  /\ InitFrom(QueueCallers, NetInit)
  /\ sessionCache = NoSession
  /\ manifest = NoManifest
  /\ proc = "running"
  /\ planner = NoPlan
  /\ parser = NoParse
  /\ audit = NoAudit
  /\ lockDeps = NoLockDeps

NextQueue ==
  \/ DirectCall
  \/ Return
  \/ \E i \in Pkgs : CheckExisting(i)
  \/ \E i \in Pkgs : DownloadDone(i)
  \/ \E i \in Pkgs : MetaResponse(i)
  \/ \E i \in Pkgs : MetaWake(i)
  \/ \E i \in Pkgs : WriteDone(i)
  \/ \E i \in Pkgs : CleanupDone(i)
  \/ \E i \in Pkgs : BackoffDone(i)

\* a callback of a task of the call runs
TaskStep ==
  \E i \in Pkgs :
    \/ CheckExisting(i)
    \/ DownloadDone(i)
    \/ MetaResponse(i)
    \/ MetaWake(i)
    \/ WriteDone(i)
    \/ CleanupDone(i)
    \/ BackoffDone(i)

\* the event loop runs a callback that is ready: an await of a task ends,
\* and the await of Promise.allSettled resumes
FairQueue == WF_vars(Return) /\ WF_vars(TaskStep)

SpecQueue == InitQueue /\ [][NextQueue]_vars /\ FairQueue

(***************************************************************************)
(* Calls of downloadPackages on a downloader with or without a progress    *)
(* callback.                                                               *)
(***************************************************************************)
ProgressCallbacks == {"none", "returns", "throws", "throwsWhenCompleted"}

ProgressCallers ==
  {[c EXCEPT !.budget = ProgressFaults] :
     c \in {d \in Callers(TaskLists, TRUE) : d.mode = "direct"}}

InitProgress ==
  /\ InitEngine(ProgressCallers, NetInit, ProgressCallbacks)
  /\ sessionCache = NoSession
  /\ manifest = NoManifest
  /\ proc = "running"
  /\ planner = NoPlan
  /\ parser = NoParse
  /\ audit = NoAudit
  /\ lockDeps = NoLockDeps

NextProgress ==
  \/ DirectCall
  \/ Return
  \/ \E i \in Pkgs : CheckExisting(i)
  \/ \E i \in Pkgs : DownloadDone(i)
  \/ \E i \in Pkgs : MetaResponse(i)
  \/ \E i \in Pkgs : MetaWake(i)
  \/ \E i \in Pkgs : WriteDone(i)
  \/ \E i \in Pkgs : CleanupDone(i)
  \/ \E i \in Pkgs : BackoffDone(i)

SpecProgress == InitProgress /\ [][NextProgress]_vars

(***************************************************************************)
(* A call during which SIGINT, SIGTERM or SIGHUP may arrive.               *)
(***************************************************************************)
AbortCallers ==
  {[c EXCEPT !.budget = AbortFaults] :
     c \in {d \in Callers({l \in TaskLists : Len(l) > 1}, TRUE) :
              d.mode = "direct"}}

InitAbort ==
  /\ InitFrom(AbortCallers, NetInit)
  /\ sessionCache = NoSession
  /\ manifest = NoManifest
  /\ proc = "running"
  /\ planner = NoPlan
  /\ parser = NoParse
  /\ audit = NoAudit
  /\ lockDeps = NoLockDeps

\* the signal is delivered: cleanup() runs up to its first await
Signal ==
  /\ proc = "running"
  /\ proc' = "stopping"
  /\ UNCHANGED <<now, net, requestCache, store, fs, caller, dl, sem, task,
                 hist, faults>>
  /\ UNCHANGED <<sessionCache, manifest, planner, parser, audit, lockDeps>>

\* the mirror when the process ends: the archive of a download in flight
\* has been created and partly written for the tasks of `partial`
exitMirror(f, partial) ==
  [d \in Dirs |->
     IF \E i \in partial : packageDir(i) = d
       THEN LET i == CHOOSE j \in partial : packageDir(j) = d
            IN  writeFile(f, d, archiveFileName(Catalog[i].resolved), FALSE)[d]
       ELSE f[d]]

\* cleanup() after its awaits: TEMP_DIR has been removed, process.exit(0)
Exit ==
  /\ proc = "stopping"
  /\ proc' = "exited"
  /\ \E partial \in SUBSET {i \in Pkgs : task[i].pc = "download"} :
       fs' = exitMirror(fs, partial)
  /\ task' = [i \in Pkgs |->
                IF task[i].pc \in Active \cup {"queued"}
                  THEN [task[i] EXCEPT !.pc = "killed"] ELSE task[i]]
  /\ dl' = [dl EXCEPT !.status = "killed"]
  /\ caller' = [caller EXCEPT !.pc = "exited"]
  /\ sessionCache' = [sessionCache EXCEPT !.file = NoFile]
  /\ UNCHANGED <<now, net, requestCache, store, sem, hist, faults>>
  /\ UNCHANGED <<manifest, planner, parser, audit, lockDeps>>

NextAbort ==
  \/ Signal
  \/ Exit
  \/ DirectCall
  \/ Return
  \/ \E i \in Pkgs : CheckExisting(i)
  \/ \E i \in Pkgs : DownloadDone(i)
  \/ \E i \in Pkgs : MetaResponse(i)
  \/ \E i \in Pkgs : MetaWake(i)
  \/ \E i \in Pkgs : WriteDone(i)
  \/ \E i \in Pkgs : CleanupDone(i)
  \/ \E i \in Pkgs : BackoffDone(i)

SpecAbort == InitAbort /\ [][NextAbort]_vars

(***************************************************************************)
(* check --fix, and install's performAutoCheck: checkTgzFiles audits a     *)
(* mirror and repairs it with a PackageDownloader of its own. The failure  *)
(* store is the singleton's: empty, or loaded from the cache file that the *)
(* failed repair of an earlier session left.                               *)
(***************************************************************************)
\* the mirrors of the model: the directory vue with the registry's
\* document as package.json and at most MaxArchives archives
AuditMirrors ==
  {<<MirrorPackage(<<"vue">>, "vue", undefined, latest, versions, tgzFiles)>> :
     latest \in {Ver(<<2, 0, 0>>, <<>>), Ver(<<2, 1, 0>>, <<>>)},
     versions \in {<<>>, RegistryVersions},
     tgzFiles \in {S \in SUBSET {RegistryVersions[k] : k \in 1..Len(RegistryVersions)} :
                     Cardinality(S) <= MaxArchives}}

\* the files of the mirror
mirrorFiles(mirror) ==
  [d \in Dirs |->
     IF \E k \in 1..Len(mirror) : mirror[k].path = d
       THEN LET m == mirror[CHOOSE k \in 1..Len(mirror) : mirror[k].path = d]
            IN  [exists |-> TRUE,
                 files |-> {[name |-> joinChars(archiveChars(m.name, v)),
                             complete |-> TRUE] : v \in m.tgzFiles},
                 manifest |-> "named"]
       ELSE NoDir]

\* the cache file of a session whose repair of vue@2.1.0 failed
RepairFile ==
  cacheData([retryCount |-> 0,
             failedPackages |->
               << [key |-> KeyOf(Catalog[Len(Catalog)]), pkg |-> Len(Catalog),
                   error |-> failureMessage(Catalog[Len(Catalog)])] >>])

AuditStores == {StoreInit, loadFromCache(StoreInit, RepairFile)}

InitAudit ==
  /\ now = 0
  /\ net = NetInit
  /\ requestCache = {}
  /\ store \in AuditStores
  /\ audit \in {[NoAudit EXCEPT !.text = t, !.fix = f, !.mirror = m] :
                  t \in {"tgzChecker.ts", "part_002"}, f \in BOOLEAN,
                  m \in AuditMirrors}
  /\ fs = mirrorFiles(audit.mirror)
  /\ caller = [mode |-> "audit", pc |-> "start", packages |-> <<>>,
               concurrency |-> IF audit.text = "part_002" THEN 12 ELSE 10,
               calls |-> 0, rounds |-> 0, limited |-> TRUE,
               budget |-> AuditFaults]
  /\ faults = 0
  /\ dl = [skipFailed |-> TRUE, packages |-> <<>>, batch |-> <<>>,
           concurrency |-> 0,
           progress |-> [total |-> 0, completed |-> 0, failed |-> 0],
           failedPackages |-> <<>>, status |-> "none", failedAtCall |-> {},
           onProgress |-> "returns"]
  /\ sem = [permits |-> 0, waitQueue |-> <<>>, granted |-> <<>>]
  /\ task = [i \in Pkgs |-> IdleTask]
  /\ hist = [i \in Pkgs |-> NoHist]
  /\ sessionCache = NoSession
  /\ manifest = NoManifest
  /\ proc = "running"
  /\ planner = NoPlan
  /\ parser = NoParse
  /\ lockDeps = NoLockDeps

\* checkTgzFiles up to the repair: the walk of the tree and the report
CheckTgzFiles ==
  /\ audit.pc = "idle"
  /\ audit' =
       IF audit.text = "tgzChecker.ts"
         THEN LET incompletePackages == checkPackageIntegrity(audit.mirror)
                  versionMismatchPackages ==
                    checkVersionMatching(audit.mirror, incompletePackages)
              IN  [audit EXCEPT
                     !.incompletePackages = incompletePackages,
                     !.versionMismatchPackages = versionMismatchPackages,
                     !.pc = IF audit.fix /\ versionMismatchPackages # <<>>
                              THEN "urls" ELSE "done"]
         ELSE LET packageInfoMap == scanAllPackages(audit.mirror, <<>>)
              IN  [audit EXCEPT
                     !.packageInfoMap = packageInfoMap,
                     !.incompletePackages = incompleteOf(packageInfoMap),
                     !.pc = IF audit.fix /\ packageInfoMap # <<>>
                              THEN "versions" ELSE "done"]
  /\ UNCHANGED <<now, net, requestCache, store, fs, caller, dl, sem, task,
                 hist, faults>>
  /\ UNCHANGED <<sessionCache, manifest, proc, planner, parser, lockDeps>>

\* downloadMajorVersionsOptimized of part_002: the versions of the packages
\* are read, locally or from the registry, and the versions to download are
\* planned
VersionsRead ==
  /\ audit.pc = "versions"
  /\ \E answered \in [1..Len(audit.packageInfoMap) -> BOOLEAN] :
       /\ \A k \in 1..Len(audit.packageInfoMap) :
            getPackageAllVersionsFromLocal(
              audit.mirror, audit.packageInfoMap[k].packageName) # <<>>
              => answered[k]
       /\ LET planned ==
                planAll(audit.mirror, audit.packageInfoMap, answered, 1)
              failed == Cardinality({k \in 1..Len(audit.packageInfoMap) :
                                       ~answered[k]})
          IN  audit' = [audit EXCEPT
                          !.packagesToDownload = planned,
                          !.errors = @ + failed,
                          !.pc = IF planned = <<>>
                                   THEN "done" ELSE "urls"]
  /\ UNCHANGED <<now, net, requestCache, store, fs, caller, dl, sem, task,
                 hist, faults>>
  /\ UNCHANGED <<sessionCache, manifest, proc, planner, parser, lockDeps>>

\* what the repair looks the download URLs up for
lookupTargets ==
  IF audit.text = "tgzChecker.ts"
    THEN mismatchTargets(audit.versionMismatchPackages)
    ELSE audit.packagesToDownload

\* the repair of either text: the URL lookups have settled, and the items
\* that got a URL are handed to downloadPackages of a new PackageDownloader
UrlsResolved ==
  /\ audit.pc = "urls"
  /\ \E found \in [1..Len(lookupTargets) -> BOOLEAN] :
       LET packagesWithUrls == withUrls(lookupTargets, found, 1)
           failed == Cardinality({k \in 1..Len(lookupTargets) : ~found[k]})
       IN  IF packagesWithUrls = <<>>
             THEN /\ audit' = [audit EXCEPT !.errors = @ + failed,
                                            !.pc = "done"]
                  /\ UNCHANGED <<net, requestCache, store, fs, dl, sem, task,
                                 hist>>
             ELSE /\ audit' = [audit EXCEPT
                                 !.errors = @ + failed,
                                 !.packagesWithUrls = packagesWithUrls,
                                 !.pc = "downloading"]
                  /\ Apply(downloadPackages(World, packagesWithUrls, TRUE,
                                            caller.concurrency))
  /\ UNCHANGED <<now, caller, faults>>
  /\ UNCHANGED <<sessionCache, manifest, proc, planner, parser, lockDeps>>

\* the repair after downloadPackages has returned: downloadedVersions
\* (tgzChecker.ts drops every item whose name failed, part_002 the
\* items that failed)
RepairDone ==
  /\ audit.pc = "downloading"
  /\ dl.status = "resolved"
  /\ LET failedOf(i) ==
           \E k \in 1..Len(dl.failedPackages) :
             /\ Catalog[dl.failedPackages[k]].name = Catalog[i].name
             /\ \/ audit.text = "tgzChecker.ts"
                \/ Catalog[dl.failedPackages[k]].version = Catalog[i].version
     IN  audit' = [audit EXCEPT
                     !.downloadedVersions =
                        SelectSeq(audit.packagesWithUrls,
                                  LAMBDA i : ~failedOf(i)),
                     !.errors = @ + Len(dl.failedPackages),
                     !.pc = "done"]
  /\ UNCHANGED <<now, net, requestCache, store, fs, caller, dl, sem, task,
                 hist, faults>>
  /\ UNCHANGED <<sessionCache, manifest, proc, planner, parser, lockDeps>>

NextAudit ==
  \/ CheckTgzFiles
  \/ VersionsRead
  \/ UrlsResolved
  \/ RepairDone
  \/ Return
  \/ \E i \in Pkgs : CheckExisting(i)
  \/ \E i \in Pkgs : DownloadDone(i)
  \/ \E i \in Pkgs : MetaResponse(i)
  \/ \E i \in Pkgs : MetaWake(i)
  \/ \E i \in Pkgs : WriteDone(i)
  \/ \E i \in Pkgs : CleanupDone(i)
  \/ \E i \in Pkgs : BackoffDone(i)

SpecAudit == InitAudit /\ [][NextAudit]_vars

(***************************************************************************)
(* The response interceptors on an optimizer whose rolling window is full. *)
(* A failed request is a timeout: it takes TimeoutMs, a successful one     *)
(* LatencyMs, so an entry of requestTimes tells which of the two it was.   *)
(***************************************************************************)
\* the optimizer after k more responses at time 0, all of them errors or
\* none of them, recorded FeedChunk at a time
RECURSIVE FeedLong(_, _, _, _)
FeedLong(n, k, hasError, requestTime) ==
  IF k <= FeedChunk
    THEN FeedAt(n, k, IF hasError THEN k ELSE 0, requestTime)
  ELSE LET next == FeedAt(n, FeedChunk, IF hasError THEN FeedChunk ELSE 0,
                          requestTime)
       IN  IF next.totalRequests = n.totalRequests + FeedChunk
             THEN FeedLong(next, k - FeedChunk, hasError, requestTime)
             ELSE n

\* the optimizers after WindowSamples responses, the first `failed` of them
\* timeouts
WindowNets ==
  {FeedLong(FeedLong(NetInit, failed, TRUE, TimeoutMs),
            WindowSamples - failed, FALSE, LatencyMs) :
     failed \in 0..WindowSamples}

InitWindow ==
  /\ \E n \in WindowNets :
       InitFrom({c \in Callers({l \in TaskLists : Len(l) = 1}, FALSE) :
                   c.mode = "direct" /\ c.concurrency = 1
                   /\ c.packages[1] \notin LockPkgs},
                n)
  /\ sessionCache = NoSession
  /\ manifest = NoManifest
  /\ proc = "running"
  /\ planner = NoPlan
  /\ parser = NoParse
  /\ audit = NoAudit
  /\ lockDeps = NoLockDeps

\* the response interceptor of the axios instance: a response, or the
\* error of a timeout
WindowResponse ==
  /\ net.totalRequests < WindowSamples + MaxSamples
  /\ \E hasError \in BOOLEAN :
       net' = updateNetworkMetrics(
                net, IF hasError THEN TimeoutMs ELSE LatencyMs, hasError, now)
  /\ UNCHANGED <<now, requestCache, store, fs, caller, dl, sem, task, hist,
                 faults>>
  /\ UNCHANGED outside

NextWindow == WindowResponse

SpecWindow == InitWindow /\ [][NextWindow]_vars

(***************************************************************************)
(* check without --fix on a tree that holds a package in two directories:  *)
(* a/node_modules/lodash, which the walk reaches first, and lodash.        *)
(***************************************************************************)
\* the states of such a directory: its manifest declares a version, only
\* dist-tags.latest, or neither, and at most one archive lies beside it
ScanDirectories(path) ==
  {MirrorPackage(path, "lodash", version, latest, <<>>, tgzFiles) :
     version \in {undefined, Ver(<<1, 0, 0>>, <<>>), Ver(<<2, 0, 0>>, <<>>)},
     latest \in {undefined, Ver(<<2, 0, 0>>, <<>>)},
     tgzFiles \in {{}, {Ver(<<1, 0, 0>>, <<>>)}, {Ver(<<2, 0, 0>>, <<>>)}}}

ScanMirrors ==
  {<<nested, top>> :
     nested \in ScanDirectories(<<"a", "node_modules", "lodash">>),
     top \in ScanDirectories(<<"lodash">>)}

InitScan ==
  /\ now = 0
  /\ net = NetInit
  /\ requestCache = {}
  /\ store = StoreInit
  /\ audit \in {[NoAudit EXCEPT !.text = t, !.mirror = m] :
                  t \in {"tgzChecker.ts", "part_002"}, m \in ScanMirrors}
  /\ fs = mirrorFiles(audit.mirror)
  /\ caller = [mode |-> "audit", pc |-> "start", packages |-> <<>>,
               concurrency |-> IF audit.text = "part_002" THEN 12 ELSE 10,
               calls |-> 0, rounds |-> 0, limited |-> TRUE,
               budget |-> AuditFaults]
  /\ faults = 0
  /\ dl = [skipFailed |-> TRUE, packages |-> <<>>, batch |-> <<>>,
           concurrency |-> 0,
           progress |-> [total |-> 0, completed |-> 0, failed |-> 0],
           failedPackages |-> <<>>, status |-> "none", failedAtCall |-> {},
           onProgress |-> "returns"]
  /\ sem = [permits |-> 0, waitQueue |-> <<>>, granted |-> <<>>]
  /\ task = [i \in Pkgs |-> IdleTask]
  /\ hist = [i \in Pkgs |-> NoHist]
  /\ sessionCache = NoSession
  /\ manifest = NoManifest
  /\ proc = "running"
  /\ planner = NoPlan
  /\ parser = NoParse
  /\ lockDeps = NoLockDeps

NextScan == CheckTgzFiles

SpecScan == InitScan /\ [][NextScan]_vars

(***************************************************************************)
(* downloadAllFromLockDeps(packages, progress): the packages are numbered  *)
(* 1..total in the order of the array.                                     *)
(***************************************************************************)
\* next(): while (active < concurrency && index < total) a download starts
startNext(l) ==
  LET k == Min(lockConcurrency - Cardinality(l.running), l.total - l.index)
  IN  IF k > 0
        THEN [l EXCEPT !.running = @ \cup ((l.index + 1)..(l.index + k)),
                       !.index = @ + k]
        ELSE l

\* downloadOne(pkg) has ended, and the callback of its then: the counter,
\* active--, and next() or resolve(failedList). A failed metadata request
\* is ignored, so ok is the outcome of downloadWithProgress
downloadOneSettled(l, i, ok) ==
  LET l1 == [l EXCEPT !.finished = IF ok THEN @ + 1 ELSE @,
                      !.failed = IF ok THEN @ ELSE @ + 1,
                      !.failedList = IF ok THEN @ ELSE Append(@, i),
                      !.running = @ \ {i}]
  IN  IF l1.finished + l1.failed < l1.total THEN startNext(l1)
      ELSE IF l1.running = {} THEN [l1 EXCEPT !.status = "resolved"]
      ELSE l1

InitLockDeps ==
  /\ InitFrom({[mode |-> "package", pc |-> "start", packages |-> <<>>,
                concurrency |-> lockConcurrency, calls |-> 0, rounds |-> 0,
                limited |-> TRUE, budget |-> 0]},
              NetInit)
  /\ sessionCache = NoSession
  /\ manifest = NoManifest
  /\ proc = "running"
  /\ planner = NoPlan
  /\ parser = NoParse
  /\ audit = NoAudit
  /\ lockDeps \in {[NoLockDeps EXCEPT !.total = n] : n \in 0..MaxLockDeps}

\* downloadAllFromPackage calls downloadAllFromLockDeps: the executor of
\* the returned promise calls next()
DownloadAllFromLockDeps ==
  /\ lockDeps.status = "none"
  /\ lockDeps' = startNext([lockDeps EXCEPT !.status = "pending"])
  /\ UNCHANGED <<now, net, requestCache, store, fs, caller, dl, sem, task,
                 hist, faults>>
  /\ UNCHANGED <<sessionCache, manifest, proc, planner, parser, audit>>

DownloadOneSettled ==
  /\ lockDeps.status = "pending"
  /\ \E i \in lockDeps.running, ok \in BOOLEAN :
       lockDeps' = downloadOneSettled(lockDeps, i, ok)
  /\ UNCHANGED <<now, net, requestCache, store, fs, caller, dl, sem, task,
                 hist, faults>>
  /\ UNCHANGED <<sessionCache, manifest, proc, planner, parser, audit>>

NextLockDeps == DownloadAllFromLockDeps \/ DownloadOneSettled

\* the call is made, and every download that has started ends
FairLockDeps ==
  WF_vars(DownloadAllFromLockDeps) /\ WF_vars(DownloadOneSettled)

SpecLockDeps == InitLockDeps /\ [][NextLockDeps]_vars /\ FairLockDeps

(***************************************************************************)
(* Properties.                                                             *)
(***************************************************************************)
\* the tasks of the running call that hold a permit: their fetch is in flight
InFlight == {i \in Pkgs : task[i].pc \in Active}

\* the breaker is open and its cooldown has not elapsed
BreakerBlocks ==
  net.circuitBreakerOpen /\ now - net.circuitBreakerOpenTime <= circuitBreakerTimeout

\* C1: at every moment of a downloadPackages call made with concurrency C,
\* at most C of its tasks are past acquire() and before release().
C1_AtMostCInFlight == Cardinality(InFlight) <= dl.concurrency

\* a call with concurrency 1: one task downloads while the other waits
C1_Witness ==
  /\ dl.concurrency = 1
  /\ \E i \in Pkgs, j \in Pkgs :
       task[i].pc = "download" /\ task[j].pc = "queued" /\ sem.waitQueue = <<j>>

\* C2: while the breaker is open (and its cooldown has not elapsed) no task
\* starts a network request, neither the archive download nor the metadata
\* request.
C2_NoRequestWhileOpen ==
  [][BreakerBlocks =>
       \A i \in Pkgs :
         ~(task'[i].pc \in {"download", "meta"} /\ task'[i].pc # task[i].pc)]_vars

\* C3: with skipFailed the batch of a call is its task list without the
\* tasks whose key was in the failure store when the call was made, and
\* those tasks are never attempted; without skipFailed the batch is the whole
\* task list, and every task of a batch is attempted.
C3_SkipFailedSelects ==
  dl.status # "none" =>
    LET listed == {dl.packages[k] : k \in 1..Len(dl.packages)}
        batch == {dl.batch[k] : k \in 1..Len(dl.batch)}
    IN  /\ dl.skipFailed =>
             batch = {i \in listed : KeyOf(Catalog[i]) \notin dl.failedAtCall}
        /\ ~dl.skipFailed => dl.batch = dl.packages
        /\ \A i \in Pkgs \ batch : task[i].pc = "idle" /\ hist[i].attempts = 0
        /\ \A i \in batch : task[i].pc # "idle"
        /\ dl.status = "resolved" => \A i \in batch : hist[i].attempts >= 1

\* a call with skipFailed left a stored task out and attempted the other
C3_Witness ==
  /\ dl.skipFailed /\ dl.status = "resolved"
  /\ Len(dl.packages) = 2 /\ Len(dl.batch) = 1
  /\ \E i \in Pkgs :
       /\ KeyOf(Catalog[i]) \in dl.failedAtCall
       /\ InSeq(i, dl.packages) /\ ~InSeq(i, dl.batch)
       /\ hist[i].attempts = 0

C5_NoRequestWhenPresent ==
  \A i \in Pkgs : hist[i].hadArtifacts => ~hist[i].netUsed

C7_AtMostThreeAttempts == \A i \in Pkgs : hist[i].attempts <= 3

\* C7: a task is attempted at most maxRetries + 1 = 4 times in one call,
\* and it is reported failed only after its 4th attempt.
C7_AtMostFourAttempts ==
  \A i \in Pkgs :
    /\ hist[i].attempts <= maxRetries + 1
    /\ hist[i].exhausted => hist[i].attempts = maxRetries + 1

\* a task is reported failed after 4 attempts
C7_Witness ==
  \E i \in Pkgs :
    task[i].pc = "failed" /\ hist[i].exhausted /\ hist[i].attempts = 4

\* C8: a task that gave up is marked failed and listed in the call's result,
\* a waiting task never waits without a running one, and the call resolves
\* with every task of the batch attempted and with exactly the failed tasks,
\* each once, as its result.
C8_FailuresAggregated ==
  /\ \A i \in Pkgs :
       hist[i].exhausted => task[i].pc = "failed" /\ InSeq(i, dl.failedPackages)
  /\ (\E i \in Pkgs : task[i].pc = "queued") => InFlight # {}
  /\ dl.status = "resolved" =>
       LET failed == {i \in Pkgs : task[i].pc = "failed"}
       IN  /\ \A k \in 1..Len(dl.batch) : hist[dl.batch[k]].attempts >= 1
           /\ {dl.failedPackages[k] : k \in 1..Len(dl.failedPackages)} = failed
           /\ Len(dl.failedPackages) = Cardinality(failed)
           /\ dl.progress.failed = Cardinality(failed)
           /\ dl.progress.completed + dl.progress.failed = dl.progress.total

\* a call with concurrency 1 resolved: its first task failed, its second
\* task ran after that and succeeded
C8_Witness ==
  /\ dl.status = "resolved" /\ dl.concurrency = 1 /\ Len(dl.batch) = 2
  /\ task[dl.batch[1]].pc = "failed"
  /\ task[dl.batch[2]].pc = "done"
  /\ dl.failedPackages = <<dl.batch[1]>>

\* C9: once 21 samples are recorded of which more than half failed, the
\* breaker is open.
C9_OpenAfter21Samples ==
  (net.totalRequests = 21 /\ 2 * net.errorCount > net.totalRequests)
    => net.circuitBreakerOpen

\* C10: while the breaker is open and its cooldown has not elapsed, a get()
\* throws at once: the task goes to its catch branch, and neither a request
\* is handed to the transport nor the optimizer's state changed.
C10_GetFailsWhileOpen ==
  [][BreakerBlocks =>
       \A i \in Pkgs :
         (task[i].pc \in {"download", "metasleep"} /\ task'[i].pc # task[i].pc)
           => /\ task'[i].pc = "cleanup"
              /\ net' = net
              /\ requestCache' = requestCache]_vars

\* a get() was refused by the open breaker
C10_Witness ==
  /\ BreakerBlocks
  /\ \E i \in Pkgs : task[i].pc = "cleanup" /\ hist[i].circuitRejected

\* C15 as stated: a task whose attempt failed with a permanent error (a
\* response that shouldRetry refuses) is not retried and waits for no backoff
\* delay.
C15_PermanentErrorNotRetried ==
  \A i \in Pkgs : hist[i].permanent => task[i].pc \in {"cleanup", "failed"}

C11_OneProbeAtATime ==
  [][(\E i \in Pkgs : hist[i].probe /\ task[i].pc = "meta") =>
       \A j \in Pkgs : ~(task'[j].pc = "meta" /\ task[j].pc # "meta")]_vars

\* C12 as stated: when the response of that request arrives, a success
\* leaves the breaker closed, and a failure opens it at once with the time
\* of the failure as its opening time.
C12_ProbeDecides ==
  [][\A i \in Pkgs :
       (hist[i].probe /\ task[i].pc = "meta" /\ task'[i].pc # "meta") =>
         IF net'.errorCount = net.errorCount
           THEN ~net'.circuitBreakerOpen
           ELSE net'.circuitBreakerOpen /\ net'.circuitBreakerOpenTime = now]_vars

\* C13 as stated: when a round has ended, every task of the round that
\* exhausted its attempts has a record in the store, also when two tasks of
\* the round share name@version and differ in their install path.
C13_ExhaustedTaskRecorded ==
  dl.status = "resolved" =>
    \A i \in Pkgs : task[i].pc = "failed" => isPackageFailed(store, i)

\* C14 as stated: from the reset of the store at the start of a run to the
\* end of the main pass, the round counter is 0 and every record of the
\* store is the record of a task of this run that has failed, whenever the
\* constructor's load of the cache file takes its steps.
C14_FreshStoreInMainPass ==
  (caller.mode = "run" /\ caller.pc = "round" /\ caller.rounds = 0) =>
    /\ store.retryCount = 0
    /\ \A k \in 1..Len(store.failedPackages) :
         /\ InSeq(store.failedPackages[k].pkg, caller.packages)
         /\ task[store.failedPackages[k].pkg].pc = "failed"

\* C17 as stated: once SIGINT, SIGTERM or SIGHUP has been delivered no task
\* starts, and when the process has ended no archive of the mirror is
\* partially written.
C17_AbortStopsCleanly ==
  /\ [][proc # "running" =>
          \A i \in Pkgs : ~(task[i].pc \notin Active /\ task'[i].pc \in Active)]_vars
  /\ [](proc = "exited" =>
          \A d \in Dirs : \A f \in fs[d].files : f.complete)

\* the set of elements of a sequence
Range(q) == {q[k] : k \in 1..Len(q)}

\* the greatest versions of the major groups of the valid versions
MajorMaxima(versions) ==
  LET valid == {v \in Range(versions) : semverValid(v)}
  IN  {v \in valid : \A u \in valid : u.nums[1] = v.nums[1] => ~semverLess(v, u)}

ResolvedEntries(entries) == SelectSeq(entries, LAMBDA e : e.resolved # <<>>)

\* C20 as stated: parseLockFile returns one descriptor for every entry with
\* a non-empty resolved, in the order of the entries, and none for the other
\* entries.
C20_OneDescriptorPerResolved ==
  parser.pc = "parsed" =>
    LET expected == ResolvedEntries(parser.entries)
    IN  /\ Len(parser.packages) = Len(expected)
        /\ \A k \in 1..Len(parser.packages) :
             /\ parser.packages[k].resolved = expected[k].resolved
             /\ parser.packages[k].version = expected[k].version

\* the install paths of the nodes of a nested lock document that have a
\* non-empty resolved, in pre-order
RECURSIVE ResolvedPaths(_, _)
ResolvedPaths(deps, basePath) ==
  IF deps = <<>> THEN <<>>
  ELSE LET here == basePath \o <<Head(deps).name>>
       IN  (IF Head(deps).resolved # <<>> THEN <<here>> ELSE <<>>)
           \o ResolvedPaths(Head(deps).dependencies, here)
           \o ResolvedPaths(Tail(deps), basePath)

\* C21 as stated: of a nested lock document parseLockFile returns, in
\* pre-order, one descriptor for every node with a non-empty resolved,
\* whatever the ancestors of the node carry, its path being the chain of
\* names from the root.
C21_PreOrderOfResolvedNodes ==
  (parser.pc = "parsed" /\ parser.format = "dependencies") =>
    [k \in 1..Len(parser.packages) |-> parser.packages[k].path]
      = ResolvedPaths(parser.dependencies, <<>>)

\* C22 as stated: every descriptor parseLockFile returns of a nested lock
\* document has a valid semantic version.
C22_DescriptorVersionsValid ==
  (parser.pc = "parsed" /\ parser.format = "dependencies") =>
    \A k \in 1..Len(parser.packages) : semverValid(parser.packages[k].version)

\* the sum of the recorded durations against a mean of `ms` milliseconds
TimesSum == SumSeq(net.requestTimes)
MeanOf(ms) == ms * Len(net.requestTimes)

\* the speed class has just been recomputed
Recomputed ==
  /\ net.totalRequests > 0
  /\ net.totalRequests % AssessEvery = 0
  /\ Len(net.requestTimes) >= MinSamples

\* C23 as stated: after a recomputation the class is fast only if the mean
\* latency is below 2000 ms and the error rate below 0.15.
C23_FastBelowBounds ==
  (Recomputed /\ net.networkSpeed = "fast") =>
    /\ TimesSum < MeanOf(2000)
    /\ 100 * net.errorCount < 15 * net.totalRequests

\* C23, amended: after a recomputation the class is slow iff the mean
\* latency is above 5000 ms or the error rate above 0.3; otherwise fast iff
\* the mean latency is at most 2000 ms and the error rate at most 0.15; and
\* medium in every other case.
C23_SpeedClassBounds ==
  Recomputed =>
    LET slow == TimesSum > MeanOf(5000)
                  \/ 10 * net.errorCount > 3 * net.totalRequests
        fast == TimesSum <= MeanOf(2000)
                  /\ 100 * net.errorCount <= 15 * net.totalRequests
    IN  /\ net.networkSpeed = "slow" <=> slow
        /\ net.networkSpeed = "fast" <=> (~slow /\ fast)
        /\ net.networkSpeed = "medium" <=> (~slow /\ ~fast)

\* a recomputation at a mean latency of 2000 ms and an error rate of 0.15
C23_Witness ==
  /\ Recomputed
  /\ TimesSum = MeanOf(2000)
  /\ 100 * net.errorCount = 15 * net.totalRequests
  /\ net.networkSpeed = "fast"

versionGap(d) ==
  /\ getPackageVersionFromJson(d).defined
  /\ d.tgzFiles # {}
  /\ getPackageVersionFromJson(d) \notin d.tgzFiles

\* C25 as stated: once checkTgzFiles has made its report, every audited
\* package that declares a version V and holds archives but none for V has
\* a version-gap entry in the report
C25_VersionGapReported ==
  audit.pc # "idle" =>
    \A k \in 1..Len(audit.mirror) :
      versionGap(audit.mirror[k]) =>
        \E j \in 1..Len(audit.versionMismatchPackages) :
          audit.versionMismatchPackages[j].packageName = audit.mirror[k].name

\* the version gap is plain: no archive name of the directory contains the
\* declared version
plainGap(d) ==
  /\ versionGap(d)
  /\ \A f \in d.tgzFiles :
       ~includes(archiveChars(d.name, f),
                 versionChars(getPackageVersionFromJson(d)))

\* C26 as stated, for the plain gaps and the repairs in which no lookup and
\* no download failed: when checkTgzFiles(dir, true) has ended, for every
\* package with a version gap for its declared version V a task name@V was
\* handed to downloadPackages and downloadSinglePackage was called for it
C26_GapFetchAttempted ==
  (audit.pc = "done" /\ audit.fix /\ audit.errors = 0) =>
    \A k \in 1..Len(audit.mirror) :
      plainGap(audit.mirror[k]) =>
        \E i \in Pkgs :
          /\ Catalog[i].name = audit.mirror[k].name
          /\ Catalog[i].version =
               versionText(getPackageVersionFromJson(audit.mirror[k]))
          /\ InSeq(i, dl.packages)
          /\ hist[i].attempts > 0

\* C27 as stated: in repair mode no task handed to downloadPackages has
\* the directory of a package that holds a manifest and no archive
C27_NoArchiveNotFetched ==
  audit.fix =>
    \A k \in 1..Len(audit.mirror) :
      audit.mirror[k].tgzFiles = {} =>
        \A j \in 1..Len(dl.packages) :
          packageDir(dl.packages[j]) # audit.mirror[k].path

\* C28 as stated: the destination directories of two tasks of a
\* downloadPackages call are neither equal nor one inside the other
C28_DisjointDestinations ==
  dl.status = "pending" =>
    \A a \in 1..Len(dl.batch), b \in 1..Len(dl.batch) :
      a # b => ~IsPrefix(packageDir(dl.batch[a]), packageDir(dl.batch[b]))

\* the destination of the task holds a manifest and a file of the name of
\* the task's archive
artifactsPresent(f, i) ==
  /\ f[packageDir(i)].manifest # "none"
  /\ archiveFileName(Catalog[i].resolved) \in fileNames(f, packageDir(i))

\* C29 as stated: when downloadPackages has returned, the destination of
\* every task it counted as completed holds the task's archive and the
\* manifest
C29_CompletedTasksHaveArtifacts ==
  dl.status = "resolved" =>
    \A k \in 1..Len(dl.batch) :
      task[dl.batch[k]].pc = "done" => artifactsPresent(fs, dl.batch[k])

\* C30 as stated: while the breaker stays open, the time of its opening
\* does not change.
C30_OpenTimeKept ==
  [][(net.circuitBreakerOpen /\ net'.circuitBreakerOpen) =>
       net'.circuitBreakerOpenTime = net.circuitBreakerOpenTime]_vars

\* the timeouts among the samples of the rolling window
windowFailures(times) ==
  Cardinality({k \in 1..Len(times) : times[k] = TimeoutMs})

\* C31 as stated: whenever the speed class and the breaker are recomputed,
\* the error rate they use (errorCount / totalRequests) equals the failed
\* samples of the rolling window divided by the samples of the window.
C31_WindowErrorRate ==
  (net.totalRequests % AssessEvery = 0
     /\ Len(net.requestTimes) >= MinSamples) =>
    net.errorCount * Len(net.requestTimes)
      = windowFailures(net.requestTimes) * net.totalRequests

\* the tasks of batchGet whose request was in flight and is answered by the
\* step
answered == {i \in Pkgs : task[i].pc = "meta" /\ task'[i].pc # "meta"}

\* C32 as stated, for the requests of batchGet: every network response is
\* recorded as exactly one sample: a step that receives responses adds as
\* many samples as it receives responses, and as many failures as it
\* receives failed responses.
C32_OneSamplePerResponse ==
  [][answered # {} =>
       /\ net'.totalRequests = net.totalRequests + Cardinality(answered)
       /\ net'.errorCount =
            net.errorCount
              + Cardinality({i \in answered :
                               task'[i].pc \in {"metasleep", "failed"}})]_vars

\* C33 as stated: for the base a caller of batchGet requests and the speed
\* class of the optimizer, the adaptive concurrency is at least 1 and at
\* most the base.
C33_ScaledDownOnly ==
  caller.mode = "batch" =>
    /\ getAdaptiveConcurrency(net, caller.concurrency) >= 1
    /\ getAdaptiveConcurrency(net, caller.concurrency) <= caller.concurrency

\* C34 as stated: a call of batchGet eventually returns, with one result
\* (data or error) for each of its URLs.
C34_BatchGetReturns ==
  (caller.mode = "batch" /\ dl.status = "pending")
    ~> (dl.status = "resolved" /\ AllSettled)

\* C35: every task of a downloadPackages call eventually finishes as
\* completed or failed; a permit is held by exactly the tasks between
\* acquire() and release(), so it is released once when its task ends; and
\* no task waits while a permit is free, so a released permit goes to a
\* waiting task.
C35_EveryTaskFinishes ==
  /\ [](dl.status # "none" =>
          sem.permits + Cardinality(InFlight) = dl.concurrency)
  /\ [](sem.waitQueue # <<>> => sem.permits = 0)
  /\ (dl.status = "pending") ~> AllSettled

\* a call with one permit has returned: its first task failed, and the
\* second, which had waited for the permit, completed
C35_Witness ==
  /\ dl.status = "resolved" /\ dl.concurrency = 1 /\ Len(dl.batch) = 2
  /\ task[dl.batch[1]].pc = "failed"
  /\ task[dl.batch[2]].pc = "done"

C37_CountersPartitionTasks ==
  dl.status \in {"pending", "resolved"} =>
    LET ended == {i \in Pkgs : task[i].pc \in {"done", "failed"}}
    IN  /\ dl.progress.completed + dl.progress.failed <= dl.progress.total
        /\ dl.progress.completed + dl.progress.failed = Cardinality(ended)
        /\ dl.progress.completed =
             Cardinality({i \in Pkgs : task[i].pc = "done"})
        /\ dl.status = "resolved" =>
             /\ dl.progress.completed + dl.progress.failed = dl.progress.total
             /\ dl.progress.failed = Len(dl.failedPackages)

\* C38 as stated, for a first call all of whose downloads, requests and
\* writes succeed: with and without a progress callback the call returns
\* no failure and leaves an empty failure store and, in the mirror, the
\* archive and the manifest of every task.
C38_ProgressAffectsNothing ==
  (dl.status = "resolved" /\ caller.calls = 1
     /\ caller.limited /\ faults = 0) =>
    /\ dl.failedPackages = <<>>
    /\ StoreKeys(store) = {}
    /\ \A k \in 1..Len(dl.batch) : artifactsPresent(fs, dl.batch[k])

\* C39 as stated: every directory of the audited tree whose manifest has
\* a readable name and version and which holds no archive is in the
\* incomplete list of the report.
C39_EveryBareDirectoryListed ==
  audit.pc = "done" =>
    \A k \in 1..Len(audit.mirror) :
      (getPackageVersionFromJson(audit.mirror[k]).defined
         /\ audit.mirror[k].tgzFiles = {}) =>
        \E j \in 1..Len(audit.incompletePackages) :
          audit.incompletePackages[j].packagePath = audit.mirror[k].path

\* C40 as stated: a call of downloadAllFromLockDeps eventually resolves,
\* every package then finished or failed and the result the list of the
\* failed ones, for every array of packages, the empty one included.
C40_LockDepsResolves ==
  (lockDeps.status = "pending")
    ~> (/\ lockDeps.status = "resolved"
        /\ lockDeps.finished + lockDeps.failed = lockDeps.total
        /\ Len(lockDeps.failedList) = lockDeps.failed)

====
